---- MODULE Spec2Model ----
(***************************************************************************)
(* Model of the recipe ingestion pipelines of scripts/:                    *)
(*   ingest-lidia-bastianich.py   (heuristic HTML extractor, discovery)    *)
(*   ingest-serious-eats-top50.py (structured extractor, URL file)         *)
(*   extract-foodandwine-chef-urls.py (paginated URL discovery)            *)
(*   test-serious-eats-scraper.py (the validator it copies)                *)
(* Text is modelled as a sequence of one-character strings; Python's None  *)
(* as the one-element tuple None; an Optional value that is a dict or an   *)
(* int as the empty tuple (None) or a one-element tuple holding it.        *)
(***************************************************************************)
EXTENDS Integers, Sequences, FiniteSets, TLC

VARIABLES
    source,               \* which script runs: "lidia" or "serious_eats"
    site,                 \* environment: the links of each category page
    urls_file,            \* environment: serious-eats-top50-urls.json
    faults,               \* environment: the failures a request can meet
    pc,                   \* position of main()
    cat_idx,              \* lidia: index of the category page fetched next
    all_recipe_urls,      \* lidia: main's all_recipe_urls
    url_data,             \* serious eats: the loaded URL file (list of dicts)
    recipe_urls,          \* the item URLs the loop iterates over
    i,                    \* 1-based index of the item loop (enumerate(..., 1))
    attempt,              \* scrape_recipe's attempt parameter
    ret,                  \* value returned by scrape_recipe: <<>> is None
    raw_recipes,          \* main's raw_recipes
    failed_urls,          \* main's failed_urls
    j,                    \* index of the transform loop over raw_recipes
    raw_file,             \* raw snapshot on disk: <<>> not written, <<list>> written
    transformed_recipes,  \* main's transformed_recipes
    validation_failures,  \* main's validation_failures
    transformed_file,     \* transformed snapshot on disk
    summary,              \* the counters of the SUMMARY section
    exit_status,          \* value returned by main(): -1 while running
    next_id,              \* source of fresh uuid4 values
    events,               \* history: every outbound request and every sleep
    fn,                   \* a function called on its own: its name
    arg,                  \* the argument of that call
    out,                  \* <<>> before the call returns, <<value>> after
    ex_pc,                \* extractor: position of main() / extract_recipe_urls
    page_num,             \* extractor: extract_recipe_urls' page_num
    ex_urls,              \* extractor: extract_recipe_urls' all_recipe_urls
    ex_ret,               \* extractor: <<>> or <<the list extract_recipe_urls returned>>
    output_file,          \* extractor: <<>> not written, <<recipes_data>> written
    ex_exit,              \* extractor: value returned by main(): -1 while running
    ex_events             \* extractor: history of page requests and sleeps

fnvars == <<fn, arg, out>>

exvars == <<ex_pc, page_num, ex_urls, ex_ret, output_file, ex_exit, ex_events>>

mainvars == <<source, site, urls_file, faults, pc, cat_idx, all_recipe_urls, url_data, recipe_urls,
              i, attempt, j, ret, raw_recipes, failed_urls, raw_file, transformed_recipes,
              validation_failures, transformed_file, summary, exit_status, next_id, events>>

vars == <<fnvars, exvars, source, site, urls_file, faults, pc, cat_idx, all_recipe_urls, url_data, recipe_urls, i, attempt,
          j, ret, raw_recipes, failed_urls, raw_file, transformed_recipes,
          validation_failures, transformed_file, summary, exit_status, next_id,
          events>>

(***************************************************************************)
(* Program constants                                                       *)
(***************************************************************************)
RATE_LIMIT_SECONDS == 2
MAX_RETRIES == 3
RETRY_BACKOFF == 2
TARGET_RECIPE_COUNT == 30
CATEGORY_LIMIT == 10
LIDIA_THRESHOLD == 80
SE_THRESHOLD == 90
MIN_INSTRUCTIONS == 50
MIN_INGREDIENTS == 3
MIN_PARAGRAPH == 20
MAX_PAGES == 10
PAGE_DELAY == 2
MIN_ARGC == 3

(***************************************************************************)
(* Bounds of the model                                                     *)
(***************************************************************************)
NumCategories == 2     \* category pages walked (CATEGORY_URLS lists six)
MaxFileLen == 3        \* longest URL file drawn for the Serious Eats run
MaxTotal == 10         \* most item URLs of a run of SpecWide
MaxIngredients == 3    \* most ingredients of a recipe handed to validate_recipe
MaxInstructions == 51  \* longest instructions text handed to validate_recipe
MaxText == 3           \* longest servings text drawn, the page's own line apart
MaxLinks == 4          \* longest list of discovered links handed to the deduplication

\* the longest list of paragraphs handed to the instruction filter
MaxParagraphs == 2

(***************************************************************************)
(* Text helpers                                                            *)
(***************************************************************************)
None == <<"None">>

Rep(c, n) == [k \in 1..n |-> c]

Truthy(s) == s # None /\ s # <<>>

Digits == <<"0", "1", "2", "3", "4", "5", "6", "7", "8", "9">>

IsDigit(c) == \E d \in 1..10 : Digits[d] = c

DigitVal(c) == (CHOOSE d \in 1..10 : Digits[d] = c) - 1

RECURSIVE DecimalValue(_)
DecimalValue(s) ==
    IF s = <<>> THEN 0
    ELSE 10 * DecimalValue(SubSeq(s, 1, Len(s) - 1)) + DigitVal(s[Len(s)])

\* faulty variant: the rightmost run of digits
FirstDigitRun_Last(s) ==
    IF \A k \in 1..Len(s) : ~IsDigit(s[k]) THEN <<>>
    ELSE LET e == CHOOSE k \in 1..Len(s) :
                      IsDigit(s[k]) /\ \A h \in (k + 1)..Len(s) : ~IsDigit(s[h])
             b == CHOOSE k \in 1..e :
                      /\ \A h \in k..e : IsDigit(s[h])
                      /\ (k = 1 \/ ~IsDigit(s[k - 1]))
         IN  SubSeq(s, b, e)

\* re.search(r'(\d+)', s): the leftmost, longest run of digits
FirstDigitRun(s) ==
    IF \A k \in 1..Len(s) : ~IsDigit(s[k]) THEN <<>>
    ELSE LET b == CHOOSE k \in 1..Len(s) :
                      IsDigit(s[k]) /\ \A h \in 1..(k - 1) : ~IsDigit(s[h])
             e == CHOOSE k \in b..Len(s) :
                      /\ \A h \in b..k : IsDigit(s[h])
                      /\ (k = Len(s) \/ ~IsDigit(s[k + 1]))
         IN  SubSeq(s, b, e)

parse_servings(servings_text) ==
    IF ~Truthy(servings_text) THEN <<>>
    ELSE LET m == FirstDigitRun(servings_text)
         IN  IF m # <<>> THEN <<DecimalValue(m)>> ELSE <<>>

\* the subsequence of xs[lo..hi] at the positions k with keep[k], in order
RECURSIVE PickRange(_, _, _, _)
PickRange(xs, keep, lo, hi) ==
    IF lo > hi THEN <<>>
    ELSE IF lo = hi THEN (IF keep[lo] THEN <<xs[lo]>> ELSE <<>>)
    ELSE LET mid == (lo + hi) \div 2
         IN  PickRange(xs, keep, lo, mid) \o PickRange(xs, keep, mid + 1, hi)

\* [x for x, k in zip(xs, keep) if k]
Filter(xs, keep) == PickRange(xs, keep, 1, Len(xs))

\* faulty variant: the last occurrence of a duplicate is the one kept
Dedup_KeepLast(xs) ==
    Filter(xs, [k \in 1..Len(xs) |-> \A h \in (k + 1)..Len(xs) : xs[h] # xs[k]])

\* faulty variant: duplicates are kept
Dedup_KeepAll(xs) == xs

\* list(dict.fromkeys(xs)) and the seen-set loop: first occurrences, in order
Dedup(xs) ==
    Filter(xs, [k \in 1..Len(xs) |-> \A h \in 1..(k - 1) : xs[h] # xs[k]])

Take(xs, n) == SubSeq(xs, 1, IF Len(xs) < n THEN Len(xs) ELSE n)

\* json.dumps / json.loads of a list
JsonDumps(x) == [json |-> x]

JsonLoads(text) == text.json

Lowers == <<"a", "b", "c", "d", "e", "f", "g", "h", "i", "j", "k", "l", "m",
            "n", "o", "p", "q", "r", "s", "t", "u", "v", "w", "x", "y", "z">>

Uppers == <<"A", "B", "C", "D", "E", "F", "G", "H", "I", "J", "K", "L", "M",
            "N", "O", "P", "Q", "R", "S", "T", "U", "V", "W", "X", "Y", "Z">>

\* str.lower()
Lower(s) ==
    [k \in 1..Len(s) |->
        IF \E n \in 1..26 : Uppers[n] = s[k]
        THEN Lowers[CHOOSE n \in 1..26 : Uppers[n] = s[k]]
        ELSE s[k]]

\* pat in s
Contains(s, pat) ==
    \E b \in 1..(Len(s) - Len(pat) + 1) : SubSeq(s, b, b + Len(pat) - 1) = pat

RECURSIVE Join(_, _)
Join(sep, parts) ==
    IF parts = <<>> THEN <<>>
    ELSE IF Len(parts) = 1 THEN parts[1]
    ELSE Join(sep, SubSeq(parts, 1, Len(parts) - 1)) \o sep \o parts[Len(parts)]

Now == Len(events)

(***************************************************************************)
(* The world the scripts talk to.  A response either raises (exc) or       *)
(* carries a status and, for status 200, a parsed page.                    *)
(***************************************************************************)
U1 == "u1"
U2 == "u2"
U3 == "u3"

\* further item URLs, for the runs with many items
MoreUrls == <<"u4", "u5", "u6", "u7", "u8", "u9", "u10", "u11", "u12", "u13", "u14">>

\* an <a href>: the absolute URL it stands for and whether it passes the
\* recipe-link test of fetch_recipe_urls (line 138)
Href(u) == [url |-> u, recipe |-> TRUE]

NavHref == [url |-> "nav", recipe |-> FALSE]

\* the <a href> elements of the category pages of the small site
SmallSite ==
    [c \in 1..NumCategories |->
        IF c = 1 THEN <<Href(U1), Href(U2), Href(U2), Href(U3)>>
        ELSE IF c = 2 THEN <<NavHref, Href(U3), Href(U1)>>
        ELSE <<NavHref>>]

\* a site whose first category page lists n distinct recipes
WideSite(n) ==
    [c \in 1..NumCategories |->
        IF c = 1 THEN [k \in 1..n |-> Href(MoreUrls[k])] ELSE <<NavHref>>]

\* the item URLs of the large site
ManyUrls ==
    <<U1, U2, U3>> \o MoreUrls \o
    <<"u15", "u16", "u17", "u18", "u19", "u20", "u21", "u22", "u23", "u24", "u25",
      "u26", "u27", "u28", "u29", "u30", "u31", "u32", "u33", "u34", "u35", "u36",
      "u37", "u38", "u39", "u40", "u41", "u42">>

\* a category page listing the URLs lo..hi of the large site
Listing(lo, hi) == [k \in 1..(hi - lo + 1) |-> Href(ManyUrls[lo + k - 1])]

\* sites with one page for each of the six CATEGORY_URLS: disjoint pages of
\* 9, 10, 10 and 12 links; a second page repeating the first; a second page
\* equal to the first; six small overlapping pages; pages of 12 links
LargeSites ==
    { <<Listing(1, 9), Listing(10, 19), Listing(20, 29), Listing(30, 41),
        Listing(42, 42), <<NavHref>> >>,
      <<Listing(1, 9), Listing(1, 10), Listing(11, 20), Listing(21, 32),
        Listing(33, 34), <<NavHref>> >>,
      <<Listing(1, 10), Listing(1, 10), Listing(11, 20), Listing(21, 30),
        Listing(31, 32), <<NavHref>> >>,
      <<Listing(1, 3), Listing(3, 5), Listing(5, 7), Listing(7, 9),
        Listing(9, 11), Listing(11, 13)>>,
      <<Listing(1, 12), Listing(13, 24), Listing(25, 36), Listing(37, 42),
        <<NavHref>>, <<NavHref>> >> }

AllFaults == {"exc", "404", "500"}

\* what one requests.get(category_url) can do: raise, or answer 500 or 200
CategoryResponses(c) ==
    { [exc |-> TRUE, status |-> 0, links |-> <<>>] : f \in faults \cap {"exc"} }
    \cup { [exc |-> FALSE, status |-> 500, links |-> <<>>] : f \in faults \cap {"500"} }
    \cup { [exc |-> FALSE, status |-> 200, links |-> site[c]] }

W_upload == <<"u", "p", "l", "o", "a", "d">>
W_logo == <<"l", "o", "g", "o">>
W_icon == <<"i", "c", "o", "n">>
W_button == <<"b", "u", "t", "t", "o", "n">>
W_uploads == <<"w", "p", "-", "c", "o", "n", "t", "e", "n", "t", "/">> \o W_upload \o <<"s">>

SkipPatterns ==
    << <<"f", "a", "c", "e", "b", "o", "o", "k">>,
       <<"t", "w", "i", "t", "t", "e", "r">>,
       <<"p", "i", "n", "t", "e", "r", "e", "s", "t">>,
       <<"e", "m", "a", "i", "l">>,
       <<"c", "o", "p", "y", "r", "i", "g", "h", "t">>,
       <<"e", "x", "c", "e", "r", "p", "t", "e", "d", " ", "f", "r", "o", "m">>,
       <<"a", "l", "l", " ", "r", "i", "g", "h", "t", "s", " ", "r", "e", "s", "e", "r", "v", "e", "d">> >>

T_serves == <<"S", "e", "r", "v", "e", "s", " ", "6", " ", "t", "o", " ", "8">>

\* parsed recipe pages: h1 is None when the page has no <h1>; serves_h3 and
\* notes are None when their heading is missing; has_list and has_text say
\* whether the Ingredients heading with its list, and the Directions heading
\* with its recipe-text div, were found
PageGood ==
    [h1 |-> <<"R">>, serves_h3 |-> T_serves, has_list |-> TRUE, has_text |-> TRUE,
     ingredients_li |-> << <<"a">>, <<"b">>, <<>>, <<"c">> >>,
     paragraphs |-> << Rep("x", 30), <<"F", "a", "c", "e", "b", "o", "o", "k">> \o Rep("x", 14),
                       Rep("y", 20), Rep("z", 21) >>,
     notes |-> <<"n">>,
     imgs |-> << <<"/">> \o W_upload \o <<"/", "1">>, <<"/">> \o W_upload \o <<"/">> \o W_logo,
                 <<"/">> \o W_upload \o <<"/", "1">> >>]

PagePoor ==
    [h1 |-> <<"P">>, serves_h3 |-> None, has_list |-> FALSE, has_text |-> TRUE,
     ingredients_li |-> <<>>,
     paragraphs |-> << Rep("x", 21) >>, notes |-> None, imgs |-> <<>>]

PageNoTitle ==
    [h1 |-> None, serves_h3 |-> None, has_list |-> FALSE, has_text |-> FALSE,
     ingredients_li |-> <<>>,
     paragraphs |-> <<>>, notes |-> None, imgs |-> <<>>]

NoPage == PageNoTitle

\* the page the site serves at each URL
PageOf(u) == IF u = U1 THEN PageGood ELSE IF u = U2 THEN PageNoTitle ELSE PagePoor

\* what one requests.get(url) can do: raise, or answer 404, 500 or 200
RecipeResponses(u) ==
    { [exc |-> TRUE, status |-> 0, page |-> NoPage] : f \in faults \cap {"exc"} }
    \cup { [exc |-> FALSE, status |-> 404, page |-> NoPage] : f \in faults \cap {"404"} }
    \cup { [exc |-> FALSE, status |-> 500, page |-> NoPage] : f \in faults \cap {"500"} }
    \cup { [exc |-> FALSE, status |-> 200, page |-> PageOf(u)] }

(***************************************************************************)
(* History of outbound requests and sleeps                                 *)
(***************************************************************************)
ResLabel(resp) ==
    IF resp.exc THEN "exc"
    ELSE IF resp.status = 404 THEN "404"
    ELSE IF resp.status # 200 THEN "5xx"
    ELSE IF resp.page.h1 = None THEN "notitle"
    ELSE "ok"

\* pos is the 1-based position of the item in the loop, 0 outside the loop
Request(what, pos, n, res) ==
    [op |-> "request", what |-> what, pos |-> pos, n |-> n, res |-> res]

Sleep(what, n) == [op |-> "sleep", what |-> what, pos |-> 0, n |-> n, res |-> "-"]

Write(what, n) == [op |-> "write", what |-> what, pos |-> 0, n |-> n, res |-> "-"]

(***************************************************************************)
(* ingest-lidia-bastianich.py                                              *)
(***************************************************************************)
\* fetch_recipe_urls: the links of one category page, or [] on any failure
fetch_recipe_urls(resp, limit) ==
    IF resp.exc THEN <<>>
    ELSE IF resp.status # 200 THEN <<>>
    ELSE LET hrefs == Filter(resp.links, [k \in 1..Len(resp.links) |-> resp.links[k].recipe])
             recipe_links == Dedup([k \in 1..Len(hrefs) |-> hrefs[k].url])
         IN  Take(recipe_links, limit)

\* the paragraph test of line 227
Lidia_keep_paragraph(text) ==
    /\ text # <<>>
    /\ ~\E k \in 1..Len(SkipPatterns) : Contains(Lower(text), SkipPatterns[k])
    /\ Len(text) > MIN_PARAGRAPH

Lidia_instructions(page) ==
    IF ~page.has_text THEN <<>>
    ELSE LET ps == page.paragraphs
         IN  Join(<<"\n", "\n">>,
                  Filter(ps, [k \in 1..Len(ps) |-> Lidia_keep_paragraph(ps[k])]))

\* the image test of line 249
Lidia_keep_image(src) ==
    /\ src # <<>>
    /\ (Contains(Lower(src), W_upload) \/ Contains(Lower(src), W_uploads))
    /\ ~(\/ Contains(Lower(src), W_logo)
         \/ Contains(Lower(src), W_icon)
         \/ Contains(Lower(src), W_button))

Lidia_images(page) ==
    Dedup(Filter(page.imgs, [k \in 1..Len(page.imgs) |-> Lidia_keep_image(page.imgs[k])]))

Lidia_ingredients(page) ==
    IF ~page.has_list THEN <<>>
    ELSE LET lis == page.ingredients_li
         IN  Filter(lis, [k \in 1..Len(lis) |-> lis[k] # <<>>])

\* a response with a status other than 200 makes scrape_recipe return None
Lidia_status_ok(status) == status = 200

\* faulty variant: a page without a title is scraped like any other
Lidia_has_title_Always(title) == TRUE

\* lines 188-192: if not title: return None
Lidia_has_title(title) == Truthy(title)

\* the try block of scrape_recipe for a response that did not raise:
\* <<>> is None, <<raw_data>> the scraped dict
Lidia_try(url, resp, now) ==
    IF ~Lidia_status_ok(resp.status) THEN <<>>
    ELSE LET page == resp.page
             title == page.h1
         IN  IF ~Lidia_has_title(title) THEN <<>>
             ELSE << [url |-> url,
                      scraped_at |-> now,
                      title |-> title,
                      author |-> "Lidia Bastianich",
                      description |-> page.notes,
                      servings_text |-> page.serves_h3,
                      ingredients |-> Lidia_ingredients(page),
                      instructions |-> Lidia_instructions(page),
                      notes |-> page.notes,
                      images |-> Lidia_images(page),
                      cuisine |-> "Italian"] >>

\* faulty variant: the retry test off by one
ShouldRetry_OffByOne(att) == att <= MAX_RETRIES

\* the except block: retry while attempt < MAX_RETRIES
ShouldRetry(att) == att < MAX_RETRIES

\* faulty variant: the exponent counted from zero
WaitTime_FromZero(att) == RETRY_BACKOFF ^ (att - 1)

\* wait_time = RETRY_BACKOFF ** attempt
WaitTime(att) == RETRY_BACKOFF ^ att

Lidia_transform_to_schema(raw_data, id, now) ==
    [id |-> id,
     user_id |-> "system",
     name |-> raw_data.title,
     description |-> raw_data.description,
     ingredients |-> JsonDumps(raw_data.ingredients),
     instructions |-> raw_data.instructions,
     prep_time |-> <<>>,
     cook_time |-> <<>>,
     servings |-> parse_servings(raw_data.servings_text),
     cuisine |-> "Italian",
     tags |-> JsonDumps(<<"Italian", "Lidia Bastianich">>),
     images |-> JsonDumps(raw_data.images),
     source |-> raw_data.url,
     created_at |-> now,
     updated_at |-> now,
     metadata |-> [chef |-> "Lidia Bastianich",
                   scraped_at |-> raw_data.scraped_at,
                   servings_text |-> raw_data.servings_text,
                   notes |-> raw_data.notes],
     validation_issues |-> None]

TooFew(n) == IF n = 1 THEN "Too few ingredients (1)" ELSE "Too few ingredients (2)"

\* faulty variant: the instructions are looked at only when the ingredients passed
Lidia_validate_recipe_Chained(recipe) ==
    LET ingredients == JsonLoads(recipe.ingredients)
        i1 == IF ~Truthy(recipe.name) THEN <<"Missing name">> ELSE <<>>
        i2 == IF Len(ingredients) = 0 THEN <<"No ingredients">>
              ELSE IF Len(ingredients) < MIN_INGREDIENTS THEN <<TooFew(Len(ingredients))>>
              ELSE IF ~Truthy(recipe.instructions) THEN <<"No instructions">>
              ELSE IF Len(recipe.instructions) < MIN_INSTRUCTIONS
                   THEN <<"Instructions too short">>
              ELSE <<>>
        i4 == IF recipe.source = "" THEN <<"Missing source URL">> ELSE <<>>
        issues == i1 \o i2 \o i4
    IN  [is_valid |-> Len(issues) = 0, issues |-> issues]

Lidia_validate_recipe(recipe) ==
    LET ingredients == JsonLoads(recipe.ingredients)
        i1 == IF ~Truthy(recipe.name) THEN <<"Missing name">> ELSE <<>>
        i2 == IF Len(ingredients) = 0 THEN <<"No ingredients">>
              ELSE IF Len(ingredients) < MIN_INGREDIENTS THEN <<TooFew(Len(ingredients))>>
              ELSE <<>>
        i3 == IF ~Truthy(recipe.instructions) THEN <<"No instructions">>
              ELSE IF Len(recipe.instructions) < MIN_INSTRUCTIONS
                   THEN <<"Instructions too short">>
              ELSE <<>>
        i4 == IF recipe.source = "" THEN <<"Missing source URL">> ELSE <<>>
        issues == i1 \o i2 \o i3 \o i4
    IN  [is_valid |-> Len(issues) = 0, issues |-> issues]

(***************************************************************************)
(* ingest-serious-eats-top50.py                                            *)
(***************************************************************************)
M_404 == <<"4", "0", "4">>
M_NotFound == <<"N", "o", "t", " ", "F", "o", "u", "n", "d">>
M_timeout == <<"t", "i", "m", "e", "d", " ", "o", "u", "t">>

T_yields == <<"6", "-", "8", " ", "s", "e", "r", "v", "i", "n", "g", "s">>

\* what scrape_me(url) and the accessor calls yield when nothing raises
ScraperGood ==
    [title |-> <<"S">>, author |-> <<"k">>, description |-> <<"d">>,
     prep_time |-> <<10>>, cook_time |-> <<20>>, total_time |-> <<30>>,
     yields |-> T_yields,
     ingredients |-> << <<"a">>, <<"b">> >>,
     instructions |-> Rep("x", 25) \o <<" ", "\n", " ">> \o Rep("y", 25) \o <<"\n">>,
     image |-> <<"i">>, cuisine |-> <<"q">>, category |-> <<"m">>, ratings |-> <<5>>]

ScraperPoor ==
    [title |-> <<>>, author |-> None, description |-> None,
     prep_time |-> <<>>, cook_time |-> <<>>, total_time |-> <<>>,
     yields |-> None,
     ingredients |-> <<>>,
     instructions |-> <<" ">> \o Rep("x", 48) \o <<" ", " ">>,
     image |-> None, cuisine |-> None, category |-> None, ratings |-> <<>>]

\* what the extractor reads at each URL
ScraperOf(u) == IF u = U2 THEN ScraperPoor ELSE ScraperGood

\* scrape_me or an accessor raises an exception whose str() is msg, or the
\* scraper is built and read
ScrapeResponses(u) ==
    { [exc |-> TRUE, msg |-> M_timeout, scraper |-> ScraperPoor] : f \in faults \cap {"exc"} }
    \cup { [exc |-> TRUE, msg |-> M_404, scraper |-> ScraperPoor] : f \in faults \cap {"404"} }
    \cup { [exc |-> TRUE, msg |-> M_NotFound, scraper |-> ScraperPoor] : f \in faults \cap {"404"} }
    \cup { [exc |-> FALSE, msg |-> <<>>, scraper |-> ScraperOf(u)] }

SE_ResLabel(resp) ==
    IF ~resp.exc THEN "ok"
    ELSE IF resp.msg = M_timeout THEN "exc"
    ELSE "404"

Entry(u, cat) == [url |-> u, author |-> <<"k">>, category |-> cat, notes |-> None]

\* the URL file: absent, not JSON, or a list of entries
FilePattern == <<Entry(U1, <<"m">>), Entry(U2, None), Entry(U1, <<"m">>), Entry(U3, <<"w">>),
                 Entry(U2, <<"w">>)>>

UrlFiles ==
    { [state |-> "absent", data |-> <<>>], [state |-> "malformed", data |-> <<>>] }
    \cup { [state |-> "json", data |-> Take(FilePattern, n)] : n \in 0..MaxFileLen }

\* a URL file of n distinct entries
WideFile(n) == [state |-> "json", data |-> [k \in 1..n |-> Entry(MoreUrls[k], None)]]

NoFile == [state |-> "absent", data |-> <<>>]

IsWhite(c) == c \in {" ", "\n", "\t"}

\* re.sub(r'\s+', ' ', s).strip()
CollapseWs(s) ==
    LET t == Filter(s, [k \in 1..Len(s) |-> ~IsWhite(s[k]) \/ k = 1 \/ ~IsWhite(s[k - 1])])
    IN  [n \in 1..Len(t) |-> IF IsWhite(t[n]) THEN " " ELSE t[n]]

Strip(s) ==
    IF \A k \in 1..Len(s) : IsWhite(s[k]) THEN <<>>
    ELSE LET b == CHOOSE k \in 1..Len(s) : ~IsWhite(s[k]) /\ \A h \in 1..(k - 1) : IsWhite(s[h])
             e == CHOOSE k \in 1..Len(s) : ~IsWhite(s[k]) /\ \A h \in (k + 1)..Len(s) : IsWhite(s[h])
         IN  SubSeq(s, b, e)

parse_instructions(instructions) ==
    IF ~Truthy(instructions) THEN <<>>
    ELSE Strip(CollapseWs(instructions))

\* the try block of scrape_recipe when nothing raised
SE_try(url, metadata, sc, now) ==
    << [url |-> url,
        metadata |-> metadata,
        scraped_at |-> now,
        title |-> sc.title,
        author |-> sc.author,
        description |-> sc.description,
        prep_time |-> sc.prep_time,
        cook_time |-> sc.cook_time,
        total_time |-> sc.total_time,
        yields |-> sc.yields,
        ingredients |-> sc.ingredients,
        instructions |-> sc.instructions,
        image |-> sc.image,
        cuisine |-> sc.cuisine,
        category |-> sc.category,
        ratings |-> sc.ratings] >>

\* faulty variant: the not-found test left out
SE_is_not_found_Never(error_msg) == FALSE

\* "404" in error_msg or "Not Found" in error_msg
SE_is_not_found(error_msg) == Contains(error_msg, M_404) \/ Contains(error_msg, M_NotFound)

SE_metadata(recipe_info) ==
    [author |-> recipe_info.author, category |-> recipe_info.category,
     notes |-> recipe_info.notes]

\* faulty variant: the category of the URL file put before the extractor's
SE_tags_MetadataFirst(raw_data) ==
    Dedup((IF Truthy(raw_data.metadata.category)
           THEN <<raw_data.metadata.category>> ELSE <<>>)
          \o (IF Truthy(raw_data.category) THEN <<raw_data.category>> ELSE <<>>))

\* the tags of lines 196-204: the extractor's category, then the category of
\* the URL file, duplicates removed in first-seen order
SE_tags(raw_data) ==
    Dedup((IF Truthy(raw_data.category) THEN <<raw_data.category>> ELSE <<>>)
          \o (IF Truthy(raw_data.metadata.category)
              THEN <<raw_data.metadata.category>> ELSE <<>>))

SE_transform_to_schema(raw_data, id, now) ==
    [id |-> id,
     user_id |-> "system",
     name |-> raw_data.title,
     description |-> raw_data.description,
     ingredients |-> JsonDumps(raw_data.ingredients),
     instructions |-> parse_instructions(raw_data.instructions),
     prep_time |-> raw_data.prep_time,
     cook_time |-> raw_data.cook_time,
     servings |-> parse_servings(raw_data.yields),
     cuisine |-> raw_data.cuisine,
     tags |-> JsonDumps(SE_tags(raw_data)),
     images |-> JsonDumps(IF Truthy(raw_data.image) THEN <<raw_data.image>> ELSE <<>>),
     source |-> raw_data.url,
     created_at |-> now,
     updated_at |-> now,
     discovery_date |-> now,
     metadata |-> [author |-> raw_data.metadata.author,
                   category |-> raw_data.metadata.category,
                   notes |-> raw_data.metadata.notes,
                   scraped_author |-> raw_data.author,
                   scraped_ratings |-> raw_data.ratings,
                   scraped_at |-> raw_data.scraped_at],
     validation_issues |-> None]

SE_validate_recipe(recipe) ==
    LET ingredients == JsonLoads(recipe.ingredients)
        images == JsonLoads(recipe.images)
        i1 == IF ~Truthy(recipe.name) THEN <<"Missing name">> ELSE <<>>
        i2 == IF Len(ingredients) = 0 THEN <<"No ingredients">> ELSE <<>>
        i3 == IF ~Truthy(recipe.instructions) THEN <<"No instructions">>
              ELSE IF Len(recipe.instructions) < MIN_INSTRUCTIONS
                   THEN <<"Instructions too short (< 50 chars)">>
              ELSE <<>>
        i4 == IF Len(images) = 0 THEN <<"No images">> ELSE <<>>
        i5 == IF recipe.source = "" THEN <<"Missing source URL">> ELSE <<>>
        issues == i1 \o i2 \o i3 \o i4 \o i5
    IN  [is_valid |-> Len(issues) = 0, issues |-> issues]

(***************************************************************************)
(* main(): the steps both scripts share are written once, with the         *)
(* script-specific functions selected by source.                           *)
(***************************************************************************)
Threshold == IF source = "lidia" THEN LIDIA_THRESHOLD ELSE SE_THRESHOLD

\* faulty variant: every record gets the same identifier
uuid4_Fixed(counter) == 0

\* str(uuid.uuid4()): an identifier no earlier call has returned, modelled by
\* the number of identifiers drawn so far
uuid4(counter) == counter

transform_to_schema(raw_data, id, now) ==
    IF source = "lidia" THEN Lidia_transform_to_schema(raw_data, id, now)
    ELSE SE_transform_to_schema(raw_data, id, now)

validate_recipe(recipe) ==
    IF source = "lidia" THEN Lidia_validate_recipe(recipe) ELSE SE_validate_recipe(recipe)

\* faulty variant: the guard against an empty URL list left out
SuccessRate_NoGuard(success_count, total_count) ==
    [num |-> success_count * 100, den |-> total_count]

\* success_rate = (success_count / total_count * 100) if total_count > 0 else 0,
\* kept as an exact fraction
SuccessRate(success_count, total_count) ==
    IF total_count > 0 THEN [num |-> success_count * 100, den |-> total_count]
    ELSE [num |-> 0, den |-> 1]

\* faulty variant: a rate equal to the threshold does not pass
RateAtLeast_Strict(rate, threshold) == rate.num > threshold * rate.den

\* success_rate >= threshold
RateAtLeast(rate, threshold) == rate.num >= threshold * rate.den

\* f"{success_rate:.1f}", in tenths of a percent (round half to even)
RateTenths(rate) ==
    LET q == (rate.num * 10) \div rate.den
        r == (rate.num * 10) % rate.den
    IN  IF 2 * r > rate.den THEN q + 1
        ELSE IF 2 * r < rate.den THEN q
        ELSE IF q % 2 = 0 THEN q ELSE q + 1

NoSummary ==
    [success_count |-> 0, failed_count |-> 0, total_count |-> 0,
     success_rate |-> SuccessRate(0, 0), valid_count |-> 0]

\* no function is called on its own
NoCall ==
    /\ fn = "none"
    /\ arg = <<>>
    /\ out = <<>>

\* the extractor does not run
NoExtract ==
    /\ ex_pc = "off"
    /\ page_num = 1
    /\ ex_urls = <<>>
    /\ ex_ret = <<>>
    /\ output_file = <<>>
    /\ ex_exit = -1
    /\ ex_events = <<>>

\* everything but the environment
InitRun ==
    /\ pc = IF source = "lidia" THEN "discover" ELSE "load"
    /\ cat_idx = 1
    /\ all_recipe_urls = <<>>
    /\ url_data = <<>>
    /\ recipe_urls = <<>>
    /\ i = 1
    /\ attempt = 1
    /\ j = 1
    /\ ret = <<>>
    /\ raw_recipes = <<>>
    /\ failed_urls = <<>>
    /\ raw_file = <<>>
    /\ transformed_recipes = <<>>
    /\ validation_failures = <<>>
    /\ transformed_file = <<>>
    /\ summary = NoSummary
    /\ exit_status = -1
    /\ next_id = 1
    /\ events = <<>>

Init ==
    /\ source \in {"lidia", "serious_eats"}
    /\ site = SmallSite
    /\ urls_file \in (IF source = "lidia" THEN {NoFile} ELSE UrlFiles)
    /\ faults = AllFaults
    /\ InitRun
    /\ NoCall
    /\ NoExtract

\* runs over up to MaxTotal items in which an item request either succeeds
\* or answers not-found
InitWide ==
    /\ source \in {"lidia", "serious_eats"}
    /\ \E n \in 0..MaxTotal :
         /\ site = (IF source = "lidia" THEN WideSite(n) ELSE SmallSite)
         /\ urls_file = (IF source = "lidia" THEN NoFile ELSE WideFile(n))
    /\ faults = {"404"}
    /\ InitRun
    /\ NoCall
    /\ NoExtract

\* Lidia runs over the large sites, every request answered
InitLarge ==
    /\ source = "lidia"
    /\ site \in LargeSites
    /\ urls_file = NoFile
    /\ faults = {}
    /\ InitRun
    /\ NoCall
    /\ NoExtract

\* lidia main, lines 385-392: one iteration of the category loop
Lidia_discover ==
    /\ source = "lidia" /\ pc = "discover"
    /\ \E resp \in CategoryResponses(cat_idx) :
         LET urls == fetch_recipe_urls(resp, CATEGORY_LIMIT)
             all == all_recipe_urls \o urls
         IN  /\ all_recipe_urls' = all
             /\ events' = events \o <<Request("category", 0, cat_idx,
                                              IF resp.exc THEN "exc"
                                              ELSE IF resp.status = 200 THEN "ok" ELSE "5xx"),
                                      Sleep("rate_limit", RATE_LIMIT_SECONDS)>>
             /\ IF Len(all) >= TARGET_RECIPE_COUNT \/ cat_idx = Len(site)
                THEN pc' = "collect" /\ cat_idx' = cat_idx
                ELSE pc' = "discover" /\ cat_idx' = cat_idx + 1
    /\ UNCHANGED <<fnvars, exvars, source, site, urls_file, faults, url_data, recipe_urls, i, attempt, j, ret, raw_recipes,
                   failed_urls, raw_file, transformed_recipes, validation_failures,
                   transformed_file, summary, exit_status, next_id>>

\* faulty variant: the list is cut to the target count before duplicates are
\* removed
Lidia_unique_capped_CapFirst(all) == Dedup(Take(all, TARGET_RECIPE_COUNT))

\* lines 394-403: unique_urls[:TARGET_RECIPE_COUNT]
Lidia_unique_capped(all) == Take(Dedup(all), TARGET_RECIPE_COUNT)

\* lidia main, lines 394-413: dedup, cap, and the start of the item loop
Lidia_collect ==
    /\ source = "lidia" /\ pc = "collect"
    /\ recipe_urls' = Lidia_unique_capped(all_recipe_urls)
    /\ pc' = IF recipe_urls' = <<>> THEN "save_raw" ELSE "scrape"
    /\ UNCHANGED <<fnvars, exvars, source, site, urls_file, faults, cat_idx, all_recipe_urls, url_data, i, attempt, j, ret,
                   raw_recipes, failed_urls, raw_file, transformed_recipes,
                   validation_failures, transformed_file, summary, exit_status,
                   next_id, events>>

\* serious eats main, lines 315-334: load the URL file
SE_load ==
    /\ source = "serious_eats" /\ pc = "load"
    /\ LET f == urls_file IN
         IF f.state # "json"
         THEN /\ exit_status' = 1
              /\ pc' = "done"
              /\ UNCHANGED <<url_data, recipe_urls>>
         ELSE /\ url_data' = f.data
              /\ recipe_urls' = [k \in 1..Len(f.data) |-> f.data[k].url]
              /\ pc' = IF f.data = <<>> THEN "save_raw" ELSE "scrape"
              /\ UNCHANGED exit_status
    /\ UNCHANGED <<fnvars, exvars, source, site, urls_file, faults, cat_idx, all_recipe_urls, i, attempt, j, ret, raw_recipes,
                   failed_urls, raw_file, transformed_recipes, validation_failures,
                   transformed_file, summary, next_id, events>>

\* lidia scrape_recipe: one execution of the function body at depth attempt
Lidia_scrape_recipe ==
    /\ source = "lidia" /\ pc = "scrape"
    /\ \E resp \in RecipeResponses(recipe_urls[i]) :
         LET url == recipe_urls[i]
             req == Request(url, i, attempt, ResLabel(resp))
         IN  IF ~resp.exc
             THEN /\ ret' = Lidia_try(url, resp, Now)
                  /\ pc' = "item_done"
                  /\ events' = Append(events, req)
                  /\ UNCHANGED attempt
             ELSE IF ShouldRetry(attempt)
             THEN /\ events' = events \o <<req, Sleep("backoff", WaitTime(attempt))>>
                  /\ attempt' = attempt + 1
                  /\ UNCHANGED <<ret, pc>>
             ELSE /\ ret' = <<>>
                  /\ pc' = "item_done"
                  /\ events' = Append(events, req)
                  /\ UNCHANGED attempt
    /\ UNCHANGED <<fnvars, exvars, source, site, urls_file, faults, cat_idx, all_recipe_urls, url_data, recipe_urls, i, j,
                   raw_recipes, failed_urls, raw_file, transformed_recipes,
                   validation_failures, transformed_file, summary, exit_status, next_id>>

\* serious eats scrape_recipe: one execution of the function body at depth attempt
SE_scrape_recipe ==
    /\ source = "serious_eats" /\ pc = "scrape"
    /\ \E resp \in ScrapeResponses(url_data[i].url) :
         LET url == url_data[i].url
             req == Request(url, i, attempt, SE_ResLabel(resp))
         IN  IF ~resp.exc
             THEN /\ ret' = SE_try(url, SE_metadata(url_data[i]), resp.scraper, Now)
                  /\ pc' = "item_done"
                  /\ events' = Append(events, req)
                  /\ UNCHANGED attempt
             ELSE IF SE_is_not_found(resp.msg)
             THEN /\ ret' = <<>>
                  /\ pc' = "item_done"
                  /\ events' = Append(events, req)
                  /\ UNCHANGED attempt
             ELSE IF ShouldRetry(attempt)
             THEN /\ events' = events \o <<req, Sleep("backoff", WaitTime(attempt))>>
                  /\ attempt' = attempt + 1
                  /\ UNCHANGED <<ret, pc>>
             ELSE /\ ret' = <<>>
                  /\ pc' = "item_done"
                  /\ events' = Append(events, req)
                  /\ UNCHANGED attempt
    /\ UNCHANGED <<fnvars, exvars, source, site, urls_file, faults, cat_idx, all_recipe_urls, url_data, recipe_urls, i, j,
                   raw_recipes, failed_urls, raw_file, transformed_recipes,
                   validation_failures, transformed_file, summary, exit_status, next_id>>

\* faulty variant: a failed item is not recorded
Filed_NoElse(result, raw, failed, url) ==
    IF result # <<>> THEN [raw |-> Append(raw, result[1]), failed |-> failed]
    ELSE [raw |-> raw, failed |-> failed]

\* if raw_data: raw_recipes.append(raw_data) else: failed_urls.append(url)
Filed(result, raw, failed, url) ==
    IF result # <<>> THEN [raw |-> Append(raw, result[1]), failed |-> failed]
    ELSE [raw |-> raw, failed |-> Append(failed, url)]

\* faulty variant: the loop is left at the first failed item
NextItemPc_StopOnFailure(idx, n, result) ==
    IF result = <<>> THEN "save_raw" ELSE IF idx < n THEN "scrape" ELSE "save_raw"

\* the for loop goes on to the next item whatever scrape_recipe returned
NextItemPc(idx, n, result) == IF idx < n THEN "scrape" ELSE "save_raw"

\* faulty variant: the wait also follows the last item
RateLimitAfter_Always(idx, n) == TRUE

\* faulty variant: no wait between items
RateLimitAfter_Never(idx, n) == FALSE

\* lidia line 426 / serious eats line 355: if i < len(recipe_urls)
RateLimitAfter(idx, n) == idx < n

\* main, lidia lines 418-428 / serious eats lines 347-357: file the result of
\* scrape_recipe, rate-limit unless this was the last item, go to the next item
ItemDone ==
    /\ pc = "item_done"
    /\ LET f == Filed(ret, raw_recipes, failed_urls, recipe_urls[i])
       IN  raw_recipes' = f.raw /\ failed_urls' = f.failed
    /\ IF RateLimitAfter(i, Len(recipe_urls))
       THEN events' = Append(events, Sleep("rate_limit", RATE_LIMIT_SECONDS))
       ELSE UNCHANGED events
    /\ pc' = NextItemPc(i, Len(recipe_urls), ret)
    /\ i' = i + 1
    /\ attempt' = 1
    /\ ret' = <<>>
    /\ UNCHANGED <<fnvars, exvars, source, site, urls_file, faults, cat_idx, all_recipe_urls, url_data, recipe_urls, j, raw_file,
                   transformed_recipes, validation_failures, transformed_file, summary,
                   exit_status, next_id>>

\* main, lidia lines 430-435 / serious eats lines 359-364: write the raw snapshot
\* faulty variant: the transform loop is skipped
AfterSaveRaw_SkipTransform(raw) == "save_transformed"

\* for raw_data in raw_recipes: the loop body runs once per raw record, and
\* not at all for an empty list
AfterSaveRaw(raw) == IF raw = <<>> THEN "save_transformed" ELSE "transform"

SaveRaw ==
    /\ pc = "save_raw"
    /\ raw_file' = <<raw_recipes>>
    /\ events' = Append(events, Write("raw", Len(raw_recipes)))
    /\ j' = 1
    /\ pc' = AfterSaveRaw(raw_recipes)
    /\ UNCHANGED <<fnvars, exvars, source, site, urls_file, faults, cat_idx, all_recipe_urls, url_data, recipe_urls, i, attempt,
                   ret, raw_recipes, failed_urls, transformed_recipes,
                   validation_failures, transformed_file, summary, exit_status, next_id>>

\* faulty variant: a record that fails validation is dropped
Flagged_DropInvalid(transformed, v) ==
    IF v.is_valid THEN <<transformed>> ELSE <<>>

\* what the transform loop appends to transformed_recipes for one record
Flagged(transformed, v) ==
    IF v.is_valid THEN <<transformed>>
    ELSE <<[transformed EXCEPT !.validation_issues = v.issues]>>

\* main, lidia lines 445-460 / serious eats lines 374-393: one iteration of the
\* transform-and-validate loop
TransformValidate ==
    /\ pc = "transform"
    /\ LET raw_data == raw_recipes[j]
           transformed == transform_to_schema(raw_data, uuid4(next_id), Now)
           v == validate_recipe(transformed)
       IN  /\ transformed_recipes' = transformed_recipes \o Flagged(transformed, v)
           /\ validation_failures' =
                IF v.is_valid THEN validation_failures
                ELSE Append(validation_failures,
                            [recipe |-> transformed.name, url |-> transformed.source,
                             issues |-> v.issues])
    /\ next_id' = next_id + 1
    /\ j' = j + 1
    /\ pc' = IF j < Len(raw_recipes) THEN "transform" ELSE "save_transformed"
    /\ UNCHANGED <<fnvars, exvars, source, site, urls_file, faults, cat_idx, all_recipe_urls, url_data, recipe_urls, i, attempt,
                   ret, raw_recipes, failed_urls, raw_file, transformed_file, summary,
                   exit_status, events>>

\* main, lidia lines 462-467 / serious eats lines 395-400: write the
\* transformed snapshot
SaveTransformed ==
    /\ pc = "save_transformed"
    /\ transformed_file' = <<transformed_recipes>>
    /\ events' = Append(events, Write("transformed", Len(transformed_recipes)))
    /\ pc' = "summary"
    /\ UNCHANGED <<fnvars, exvars, source, site, urls_file, faults, cat_idx, all_recipe_urls, url_data, recipe_urls, i, attempt, j,
                   ret, raw_recipes, failed_urls, raw_file, transformed_recipes,
                   validation_failures, summary, exit_status, next_id>>

\* the value main returns after the summary
ExitStatus(rate, threshold) == IF RateAtLeast(rate, threshold) THEN 0 ELSE 1

\* main, lidia lines 474-527 / serious eats lines 407-461: counters and verdict
Summary ==
    /\ pc = "summary"
    /\ LET success_count == Len(raw_recipes)
           total_count == Len(recipe_urls)
           success_rate == SuccessRate(success_count, total_count)
       IN  /\ summary' = [success_count |-> success_count,
                          failed_count |-> Len(failed_urls),
                          total_count |-> total_count,
                          success_rate |-> success_rate,
                          valid_count |-> Len(transformed_recipes) - Len(validation_failures)]
           /\ exit_status' = ExitStatus(success_rate, Threshold)
    /\ pc' = "done"
    /\ UNCHANGED <<fnvars, exvars, source, site, urls_file, faults, cat_idx, all_recipe_urls, url_data, recipe_urls, i, attempt, j,
                   ret, raw_recipes, failed_urls, raw_file, transformed_recipes,
                   validation_failures, transformed_file, next_id, events>>

Next ==
    \/ Lidia_discover
    \/ Lidia_collect
    \/ SE_load
    \/ Lidia_scrape_recipe
    \/ SE_scrape_recipe
    \/ ItemDone
    \/ SaveRaw
    \/ TransformValidate
    \/ SaveTransformed
    \/ Summary

Spec == Init /\ [][Next]_vars

SpecWide == InitWide /\ [][Next]_vars

\* the steps of a Lidia run
NextLidia ==
    \/ Lidia_discover
    \/ Lidia_collect
    \/ Lidia_scrape_recipe
    \/ ItemDone
    \/ SaveRaw
    \/ TransformValidate
    \/ SaveTransformed
    \/ Summary

SpecLarge == InitLarge /\ [][NextLidia]_vars

(***************************************************************************)
(* test-serious-eats-scraper.py                                            *)
(***************************************************************************)
\* faulty variant: a later rule is skipped once an earlier one has failed
Test_validate_recipe_Elif(recipe) ==
    LET ingredients == JsonLoads(recipe.ingredients)
        images == JsonLoads(recipe.images)
        issues == IF ~Truthy(recipe.name) THEN <<"Missing name">>
                  ELSE IF Len(ingredients) = 0 THEN <<"No ingredients">>
                  ELSE IF ~Truthy(recipe.instructions) THEN <<"No instructions">>
                  ELSE IF Len(recipe.instructions) < MIN_INSTRUCTIONS
                       THEN <<"Instructions too short">>
                  ELSE IF Len(images) = 0 THEN <<"No images">>
                  ELSE IF recipe.source = "" THEN <<"Missing source URL">>
                  ELSE <<>>
    IN  [is_valid |-> Len(issues) = 0, issues |-> issues]

Test_validate_recipe(recipe) ==
    LET ingredients == JsonLoads(recipe.ingredients)
        images == JsonLoads(recipe.images)
        i1 == IF ~Truthy(recipe.name) THEN <<"Missing name">> ELSE <<>>
        i2 == IF Len(ingredients) = 0 THEN <<"No ingredients">> ELSE <<>>
        i3 == IF ~Truthy(recipe.instructions) THEN <<"No instructions">>
              ELSE IF Len(recipe.instructions) < MIN_INSTRUCTIONS
                   THEN <<"Instructions too short">>
              ELSE <<>>
        i4 == IF Len(images) = 0 THEN <<"No images">> ELSE <<>>
        i5 == IF recipe.source = "" THEN <<"Missing source URL">> ELSE <<>>
        issues == i1 \o i2 \o i3 \o i4 \o i5
    IN  [is_valid |-> Len(issues) = 0, issues |-> issues]

(***************************************************************************)
(* Functions called on their own, on arguments drawn from bounded sets     *)
(***************************************************************************)
\* recipe.get('name'): absent, empty or a text
Names == {None, <<>>, <<"n">>}

\* the ingredient lists: 0 to MaxIngredients ingredients
IngredientLists == {Rep("g", n) : n \in 0..MaxIngredients}

\* recipe.get('instructions'): absent, or a text of 0 to MaxInstructions characters
InstructionTexts == {None} \cup {Rep("x", n) : n \in 0..MaxInstructions}

ImageLists == {<<>>, <<"img">>}

Sources == {"", U1}

\* the dicts handed to validate_recipe
Recipes ==
    [name : Names,
     ingredients : {JsonDumps(x) : x \in IngredientLists},
     instructions : InstructionTexts,
     images : {JsonDumps(x) : x \in ImageLists},
     source : Sources]

\* the three copies of validate_recipe
Validators == {"lidia", "serious_eats", "test"}

ValidateBy(which, recipe) ==
    IF which = "lidia" THEN Lidia_validate_recipe(recipe)
    ELSE IF which = "serious_eats" THEN SE_validate_recipe(recipe)
    ELSE Test_validate_recipe(recipe)

\* the characters of the servings texts
Alphabet == {"s", " ", "0", "6", "8"}

\* the servings texts: absent, every text of up to MaxText characters, and
\* the servings line of a recipe page
ServingsTexts ==
    {None, T_serves} \cup UNION {[1..n -> Alphabet] : n \in 0..MaxText}

\* the discovered links: every list of up to MaxLinks of three URLs
LinkLists == UNION {[1..n -> {"a", "b", "c"}] : n \in 0..MaxLinks}

\* recipe categories: absent, empty or one of two names
Categories == {None, <<>>, <<"m">>, <<"w">>}

\* raw records of the Lidia scraper: what scrape_recipe returns for the pages
LidiaRaws ==
    {Lidia_try(U1, [exc |-> FALSE, status |-> 200, page |-> p], 0)[1] :
        p \in {PageGood, PagePoor}}

\* raw records of the Serious Eats scraper, with every pair of categories
SERaws ==
    {SE_try(U1, SE_metadata(Entry(U1, mc)), [sc EXCEPT !.category = c], 0)[1] :
        <<sc, c, mc>> \in {ScraperGood, ScraperPoor} \X Categories \X Categories}

TransformBy(which, raw_data, id, now) ==
    IF which = "lidia" THEN Lidia_transform_to_schema(raw_data, id, now)
    ELSE SE_transform_to_schema(raw_data, id, now)

\* the paragraphs of a recipe-text div: empty, one character short of the
\* length limit, at the limit, one over it, and a long one with a marker
Paragraphs ==
    {<<>>, Rep("x", MIN_PARAGRAPH - 1), Rep("y", MIN_PARAGRAPH), Rep("z", MIN_PARAGRAPH + 1),
     <<"F", "a", "c", "e", "b", "o", "o", "k">> \o Rep("x", MIN_PARAGRAPH)}

ParagraphLists == UNION {[1..n -> Paragraphs] : n \in 0..MaxParagraphs}

InitFn ==
    /\ \/ /\ fn = "validate_recipe"
          /\ arg \in [which : Validators, recipe : Recipes]
       \/ /\ fn = "parse_servings"
          /\ arg \in ServingsTexts
       \/ /\ fn = "dedup"
          /\ arg \in LinkLists
       \/ /\ fn = "instructions"
          /\ arg \in ParagraphLists
       \/ /\ fn = "transform_to_schema"
          /\ arg \in [which : {"lidia"}, raw : LidiaRaws]
                      \cup [which : {"serious_eats"}, raw : SERaws]
    /\ out = <<>>
    /\ source = "lidia"
    /\ site = SmallSite
    /\ urls_file = NoFile
    /\ faults = {}
    /\ InitRun
    /\ NoExtract

Call_validate_recipe ==
    /\ fn = "validate_recipe" /\ out = <<>>
    /\ out' = <<ValidateBy(arg.which, arg.recipe)>>
    /\ UNCHANGED <<fn, arg, exvars, source, site, urls_file, faults, pc, cat_idx, all_recipe_urls,
                   url_data, recipe_urls, i, attempt, j, ret, raw_recipes, failed_urls,
                   raw_file, transformed_recipes, validation_failures, transformed_file,
                   summary, exit_status, next_id, events>>

Call_parse_servings ==
    /\ fn = "parse_servings" /\ out = <<>>
    /\ out' = <<parse_servings(arg)>>
    /\ UNCHANGED <<fn, arg, exvars, source, site, urls_file, faults, pc, cat_idx, all_recipe_urls,
                   url_data, recipe_urls, i, attempt, j, ret, raw_recipes, failed_urls,
                   raw_file, transformed_recipes, validation_failures, transformed_file,
                   summary, exit_status, next_id, events>>

\* the three places that remove duplicate URLs: within one category page
\* (fetch_recipe_urls), across the category pages (lidia main), and across
\* the pages of the extractor (extract_recipe_urls)
Call_dedup ==
    /\ fn = "dedup" /\ out = <<>>
    /\ LET page == [exc |-> FALSE, status |-> 200,
                    links |-> [k \in 1..Len(arg) |-> Href(arg[k])]]
       IN  out' = <<[within_page |-> fetch_recipe_urls(page, CATEGORY_LIMIT),
                     across_categories |-> Take(Dedup(arg), TARGET_RECIPE_COUNT),
                     across_pages |-> Dedup(arg)]>>
    /\ UNCHANGED <<fn, arg, exvars, source, site, urls_file, faults, pc, cat_idx, all_recipe_urls,
                   url_data, recipe_urls, i, attempt, j, ret, raw_recipes, failed_urls,
                   raw_file, transformed_recipes, validation_failures, transformed_file,
                   summary, exit_status, next_id, events>>

\* transform_to_schema called twice on one raw record, at two clock readings
Call_transform_to_schema ==
    /\ fn = "transform_to_schema" /\ out = <<>>
    /\ out' = <<[first |-> TransformBy(arg.which, arg.raw, uuid4(next_id), 1),
                 second |-> TransformBy(arg.which, arg.raw, uuid4(next_id + 1), 2),
                 raw_after |-> arg.raw]>>
    /\ next_id' = next_id + 2
    /\ UNCHANGED <<fn, arg, exvars, source, site, urls_file, faults, pc, cat_idx, all_recipe_urls,
                   url_data, recipe_urls, i, attempt, j, ret, raw_recipes, failed_urls,
                   raw_file, transformed_recipes, validation_failures, transformed_file,
                   summary, exit_status, events>>

\* the instruction text scrape_recipe builds from the paragraphs of a page
Call_instructions ==
    /\ fn = "instructions" /\ out = <<>>
    /\ out' = <<Lidia_instructions([PagePoor EXCEPT !.paragraphs = arg])>>
    /\ UNCHANGED <<fn, arg, exvars, source, site, urls_file, faults, pc, cat_idx, all_recipe_urls,
                   url_data, recipe_urls, i, attempt, j, ret, raw_recipes, failed_urls,
                   raw_file, transformed_recipes, validation_failures, transformed_file,
                   summary, exit_status, next_id, events>>

NextFn ==
    \/ Call_instructions
    \/ Call_transform_to_schema
    \/ Call_validate_recipe
    \/ Call_dedup
    \/ Call_parse_servings

SpecFn == InitFn /\ [][NextFn]_vars

(***************************************************************************)
(* extract-foodandwine-chef-urls.py                                        *)
(***************************************************************************)
\* an <a href> of a chef page, by what the tests of lines 75-77 see in its
\* absolute URL
XLink(u) == [url |-> u, recipes |-> TRUE, host |-> TRUE, gallery |-> FALSE, collection |-> FALSE]

XGallery == [url |-> "gal", recipes |-> TRUE, host |-> TRUE, gallery |-> TRUE, collection |-> FALSE]

XCollection == [url |-> "col", recipes |-> TRUE, host |-> TRUE, gallery |-> FALSE, collection |-> TRUE]

XElsewhere == [url |-> "ext", recipes |-> TRUE, host |-> FALSE, gallery |-> FALSE, collection |-> FALSE]

XNav == [url |-> "nav", recipes |-> FALSE, host |-> TRUE, gallery |-> FALSE, collection |-> FALSE]

\* the <a href> lists a chef page can hold
ChefLinkLists ==
    { <<XLink("a"), XNav, XLink("b"), XLink("a"), XGallery, XLink("c")>>,
      <<XLink("b"), XCollection, XLink("d")>>,
      <<XNav, XGallery, XElsewhere>> }

\* what requests.get + raise_for_status can do for a chef page: raise a
\* transport error, raise for a 500, or answer 200 with links and with or
\* without a next-page link
ChefResponses ==
    { [exc |-> TRUE, status |-> 0, links |-> <<>>, next_page |-> FALSE],
      [exc |-> FALSE, status |-> 500, links |-> <<>>, next_page |-> FALSE] }
    \cup { [exc |-> FALSE, status |-> 200, links |-> ls, next_page |-> b] :
             ls \in ChefLinkLists, b \in BOOLEAN }

\* lines 75-77
is_recipe_url(link) == link.recipes /\ link.host /\ ~link.gallery /\ ~link.collection

\* lines 66-81: the recipe links of one page, without duplicates
page_recipe_links(links) ==
    LET kept == Filter(links, [k \in 1..Len(links) |-> is_recipe_url(links[k])])
    IN  Dedup([k \in 1..Len(kept) |-> kept[k].url])

\* the outcome of one page request, as the history records it
PageResLabel(resp) ==
    IF resp.exc THEN "exc"
    ELSE IF resp.status # 200 THEN "5xx"
    ELSE IF page_recipe_links(resp.links) = <<>> THEN "empty"
    ELSE IF resp.next_page THEN "links_next" ELSE "links_last"

\* lines 155-167 (the slug, cut out of the URL text, is left out)
recipes_data(urls) ==
    [k \in 1..Len(urls) |->
        [url |-> urls[k], source |-> "Food & Wine", extraction_order |-> k]]

InitExtract ==
    /\ ex_pc = "start"
    /\ page_num = 1
    /\ ex_urls = <<>>
    /\ ex_ret = <<>>
    /\ output_file = <<>>
    /\ ex_exit = -1
    /\ ex_events = <<>>
    /\ NoCall
    /\ source = "foodandwine"
    /\ site = SmallSite
    /\ urls_file = NoFile
    /\ faults = {}
    /\ InitRun

\* main, lines 126-148: the usage check, then the call of extract_recipe_urls
Extract_start ==
    /\ ex_pc = "start"
    /\ \E argc \in 1..MIN_ARGC :
         IF argc < MIN_ARGC
         THEN ex_pc' = "done" /\ ex_exit' = 1
         ELSE ex_pc' = "loop" /\ ex_exit' = ex_exit
    /\ UNCHANGED <<page_num, ex_urls, ex_ret, output_file, ex_events, fnvars, mainvars>>

\* faulty variant: one page more than max_pages
while_cond_OneMore(p) == p <= MAX_PAGES + 1

\* line 45: while page_num <= max_pages
while_cond(p) == p <= MAX_PAGES

\* faulty variant: a page without recipe links does not stop the walk
Advance_IgnoreEmpty(recipe_links, next_page) == next_page

\* lines 83-108: whether the walk goes on to the next page
Advance(recipe_links, next_page) == recipe_links # <<>> /\ next_page

\* extract_recipe_urls, lines 45-113: one turn of the while loop
Extract_page ==
    /\ ex_pc = "loop" /\ while_cond(page_num)
    /\ \E resp \in ChefResponses :
         LET failed == resp.exc \/ resp.status # 200
             recipe_links == IF failed THEN <<>> ELSE page_recipe_links(resp.links)
             request == [op |-> "request", page |-> page_num, res |-> PageResLabel(resp),
                         found |-> recipe_links, next_page |-> resp.next_page, n |-> 0]
             sleep == [op |-> "sleep", page |-> page_num, res |-> "rate_limit",
                       found |-> <<>>, next_page |-> FALSE, n |-> PAGE_DELAY]
         IN  IF failed
             THEN /\ ex_pc' = "return"
                  /\ ex_events' = ex_events \o <<request>>
                  /\ UNCHANGED <<page_num, ex_urls>>
             ELSE /\ ex_urls' = ex_urls \o recipe_links
                  /\ IF Advance(recipe_links, resp.next_page)
                     THEN /\ ex_pc' = "loop"
                          /\ ex_events' = ex_events \o <<request, sleep>>
                          /\ page_num' = page_num + 1
                     ELSE /\ ex_pc' = "return"
                          /\ ex_events' = ex_events \o <<request>>
                          /\ UNCHANGED page_num
    /\ UNCHANGED <<ex_ret, output_file, ex_exit, fnvars, mainvars>>

\* extract_recipe_urls, lines 115-122: after the loop
Extract_return ==
    /\ \/ ex_pc = "return"
       \/ ex_pc = "loop" /\ ~while_cond(page_num)
    /\ ex_ret' = <<Dedup(ex_urls)>>
    /\ ex_pc' = "main"
    /\ UNCHANGED <<page_num, ex_urls, output_file, ex_exit, ex_events, fnvars, mainvars>>

\* faulty variant: an empty result is written out like any other
NoRecipes_Never(urls) == FALSE

\* line 150: if not recipe_urls
NoRecipes(urls) == urls = <<>>

\* main, lines 150-186
Extract_finish ==
    /\ ex_pc = "main"
    /\ IF NoRecipes(ex_ret[1])
       THEN ex_exit' = 1 /\ UNCHANGED output_file
       ELSE ex_exit' = 0 /\ output_file' = <<recipes_data(ex_ret[1])>>
    /\ ex_pc' = "done"
    /\ UNCHANGED <<page_num, ex_urls, ex_ret, ex_events, fnvars, mainvars>>

NextExtract ==
    \/ Extract_start
    \/ Extract_page
    \/ Extract_return
    \/ Extract_finish

SpecExtract == InitExtract /\ [][NextExtract]_vars

(***************************************************************************)
(* Properties                                                              *)
(***************************************************************************)
IsItemRequest(e) == e.op = "request" /\ e.pos > 0

IsBackoff(e) == e.op = "sleep" /\ e.what = "backoff"

InLoop == pc \in {"scrape", "item_done"}

LastEvent == events[Len(events)]

\* the elements of a list
Range(xs) == {xs[k] : k \in 1..Len(xs)}

\* C1: scrape_recipe makes at most MAX_RETRIES attempts for an item; a third
\* attempt that fails transiently is followed by no backoff wait and no
\* further attempt for that item, scrape_recipe returns None right after
\* it, and the URL ends on the failed list.
C1_AttemptCap ==
    /\ attempt \in 1..MAX_RETRIES
    /\ \A k \in 1..Len(events) :
         IsItemRequest(events[k]) =>
           /\ events[k].n \in 1..MAX_RETRIES
           /\ (events[k].n = MAX_RETRIES /\ events[k].res = "exc") =>
                /\ k < Len(events) =>
                     /\ ~IsBackoff(events[k + 1])
                     /\ ~(IsItemRequest(events[k + 1]) /\ events[k + 1].pos = events[k].pos)
                /\ (k = Len(events) /\ InLoop) => (pc = "item_done" /\ ret = <<>>)
                /\ (k < Len(events) \/ ~InLoop) => events[k].what \in Range(failed_urls)

C1_Witness ==
    /\ pc = "item_done"
    /\ events # <<>>
    /\ IsItemRequest(LastEvent)
    /\ LastEvent.n = MAX_RETRIES
    /\ LastEvent.res = "exc"

\* the wait the retry policy prescribes after failed attempt a, for
\* baseDelay = 2 and backoffFactor = 2
PolicyWait(a) == 2 * 2 ^ (a - 1)

\* C2: a transient failure of attempt a < MAX_RETRIES is followed by one wait
\* of baseDelay * backoffFactor^(a-1) and then by attempt a+1 of the same
\* item; no other backoff wait occurs; an item failing transiently on all
\* three attempts waits exactly 2 and then 4.
C2_BackoffSequence ==
    /\ \A k \in 1..Len(events) :
         (IsItemRequest(events[k]) /\ events[k].res = "exc" /\ events[k].n < MAX_RETRIES) =>
           /\ k < Len(events)
           /\ events[k + 1] = Sleep("backoff", PolicyWait(events[k].n))
           /\ IF k + 1 = Len(events)
              THEN pc = "scrape" /\ attempt = events[k].n + 1 /\ i = events[k].pos
              ELSE events[k + 2].op = "request"
                   /\ events[k + 2].what = events[k].what
                   /\ events[k + 2].pos = events[k].pos
                   /\ events[k + 2].n = events[k].n + 1
    /\ \A k \in 1..Len(events) :
         IsBackoff(events[k]) =>
           /\ k > 1
           /\ IsItemRequest(events[k - 1])
           /\ events[k - 1].res = "exc"
           /\ events[k - 1].n < MAX_RETRIES
    /\ \A k \in 1..Len(events) :
         (IsItemRequest(events[k]) /\ events[k].res = "exc" /\ events[k].n = 3) =>
           /\ k >= 5
           /\ [h \in 1..5 |-> events[k - 5 + h].res] = <<"exc", "-", "exc", "-", "exc">>
           /\ <<events[k - 3].n, events[k - 1].n>> = <<2, 4>>
           /\ \A h \in {k - 4, k - 2} : events[h].pos = events[k].pos

C2_Witness ==
    /\ Len(events) >= 5
    /\ IsItemRequest(LastEvent)
    /\ LastEvent.res = "exc"
    /\ LastEvent.n = 3
    /\ events[Len(events) - 3] = Sleep("backoff", 2)
    /\ events[Len(events) - 1] = Sleep("backoff", 4)

\* the requests made for the item at position p
RequestsOf(p) == {k \in 1..Len(events) : IsItemRequest(events[k]) /\ events[k].pos = p}

\* C3: a not-found outcome of an attempt ends the item at that attempt: it is
\* the item's last request, no backoff wait follows it, scrape_recipe
\* returns None and the URL ends on the failed list; a not-found outcome on
\* attempt 1 leaves the item with exactly one request and no backoff wait.
C3_NotFoundIsPermanent ==
    \A k \in 1..Len(events) :
      (IsItemRequest(events[k]) /\ events[k].res = "404") =>
        /\ \A h \in RequestsOf(events[k].pos) : h <= k
        /\ k < Len(events) => ~IsBackoff(events[k + 1])
        /\ (k = Len(events) /\ InLoop) => (pc = "item_done" /\ ret = <<>>)
        /\ (k < Len(events) \/ ~InLoop) =>
             /\ events[k].what \in Range(failed_urls)
             /\ \A r \in Range(raw_recipes) : r.scraped_at # k - 1
        /\ events[k].n = 1 =>
             /\ RequestsOf(events[k].pos) = {k}
             /\ (k > 1 => ~IsBackoff(events[k - 1]))

C3_Witness ==
    /\ pc = "save_raw"
    /\ \E k \in 1..Len(events) :
         IsItemRequest(events[k]) /\ events[k].res = "404" /\ events[k].n = 2
    /\ \E k \in 1..Len(events) :
         IsItemRequest(events[k]) /\ events[k].res = "404" /\ events[k].n = 1

\* C4 (as claimed): an item request answered with a non-2xx status other than
\* not-found, on an attempt below the cap, is followed by a backoff wait
\* (and so by another attempt) instead of ending the item.
C4_ServerErrorRetried ==
    \A k \in 1..Len(events) :
      (IsItemRequest(events[k]) /\ events[k].res = "5xx" /\ events[k].n < MAX_RETRIES) =>
        (k < Len(events) /\ IsBackoff(events[k + 1]))

LoadFailed == source = "serious_eats" /\ urls_file.state # "json"

BeforeLoop == pc \in {"discover", "collect", "load"}

\* the first request of every item, in the order made
FirstAttempts ==
    Filter(events, [k \in 1..Len(events) |-> IsItemRequest(events[k]) /\ events[k].n = 1])

\* the guard of the step main takes next: true wherever a step is possible
CanStep ==
    \/ pc \in {"discover", "collect"} /\ source = "lidia"
    \/ pc = "load" /\ source = "serious_eats"
    \/ pc \in {"scrape", "item_done"} /\ i \in 1..Len(recipe_urls)
    \/ pc = "transform" /\ j \in 1..Len(raw_recipes)
    \/ pc \in {"save_raw", "save_transformed", "summary"}

\* C5: whatever the per-item outcomes, the loop starts exactly one
\* scrape_recipe call chain per list position, in list order, the run is
\* never stuck before main returns, the loop is left only after the last
\* position, and a run whose URL list was loaded ends with both snapshots
\* written and the summary computed over the whole list.
C5_FailuresNeverAbort ==
    /\ LET fa == FirstAttempts
       IN  /\ Len(fa) <= Len(recipe_urls)
           /\ \A p \in 1..Len(fa) : fa[p].pos = p /\ fa[p].what = recipe_urls[p]
           /\ (~BeforeLoop /\ ~InLoop /\ ~LoadFailed) => Len(fa) = Len(recipe_urls)
    /\ \A k \in 1..Len(events) : \A h \in 1..(k - 1) :
         (IsItemRequest(events[k]) /\ IsItemRequest(events[h])) =>
           \/ events[h].pos < events[k].pos
           \/ (events[h].pos = events[k].pos /\ events[h].n < events[k].n)
    /\ pc # "done" => CanStep
    /\ (pc = "done" /\ ~LoadFailed) =>
         /\ raw_file # <<>>
         /\ transformed_file # <<>>
         /\ summary.total_count = Len(recipe_urls)
         /\ exit_status \in {0, 1}

C5_Witness ==
    /\ pc = "done"
    /\ Len(recipe_urls) = 3
    /\ \E k \in 1..Len(events) : IsItemRequest(events[k]) /\ events[k].res = "notitle"
    /\ \E k \in 1..Len(events) :
         IsItemRequest(events[k]) /\ events[k].res = "exc" /\ events[k].n = MAX_RETRIES
    /\ \E k \in 1..Len(events) : IsItemRequest(events[k]) /\ events[k].res = "ok"

LastRequestOf(p) == CHOOSE k \in RequestsOf(p) : \A h \in RequestsOf(p) : h <= k

\* the item at position p was fetched and extracted
Succeeded(p) == events[LastRequestOf(p)].res = "ok"

\* C6: the items filed so far (all of them once the loop is over) are split
\* between raw_recipes and failed_urls: the counts add up to the number of
\* positions attempted, raw_recipes holds the records of exactly the
\* positions that succeeded, in order, and failed_urls the URLs of exactly
\* the others, in order.
C6_Accounting ==
    LET done == SubSeq(recipe_urls, 1, i - 1)
        ok == [p \in 1..(i - 1) |-> Succeeded(p)]
        okPos == Filter([p \in 1..(i - 1) |-> p], ok)
    IN  /\ Len(raw_recipes) + Len(failed_urls) = i - 1
        /\ [k \in 1..Len(raw_recipes) |-> raw_recipes[k].url] = Filter(done, ok)
        /\ \A k \in 1..Len(raw_recipes) :
             raw_recipes[k].scraped_at = LastRequestOf(okPos[k]) - 1
        /\ failed_urls = Filter(done, [p \in 1..(i - 1) |-> ~ok[p]])
        /\ (~BeforeLoop /\ ~InLoop /\ ~LoadFailed) => i - 1 = Len(recipe_urls)
        /\ (pc = "done" /\ ~LoadFailed) =>
             /\ summary.success_count + summary.failed_count = summary.total_count
             /\ summary.success_count = Len(raw_recipes)
             /\ summary.failed_count = Len(failed_urls)

C6_Witness ==
    /\ pc = "done"
    /\ Len(raw_recipes) = 2
    /\ Len(failed_urls) = 1
    /\ raw_recipes[1].url = failed_urls[1]

\* C7: main returns 0 exactly when the share of fetched items among the
\* item URLs, as a percentage, is at least 80 (lidia) or 90 (serious eats),
\* and 1 otherwise; a share equal to the threshold returns 0; no status is
\* set before the run completes.
C7_ExitStatus ==
    LET s == Len(raw_recipes)
        t == Len(recipe_urls)
        th == IF source = "lidia" THEN 80 ELSE 90
    IN  /\ (pc = "done" /\ ~LoadFailed) =>
             exit_status = (IF t > 0 /\ 100 * s >= th * t THEN 0 ELSE 1)
        /\ pc # "done" => exit_status = -1

C7_Witness ==
    /\ pc = "done"
    /\ exit_status = 0
    /\ Len(failed_urls) = 1
    /\ 100 * Len(raw_recipes) = 90 * Len(recipe_urls)

\* C8: a run that found no item URL ends with status 1, its rate being 0
\* over a total of 0; a run whose URL file is absent or not JSON ends with
\* status 1 having made no request and written no snapshot.
C8_NothingToIngest ==
    /\ (pc = "done" /\ ~LoadFailed /\ recipe_urls = <<>>) =>
         /\ exit_status = 1
         /\ summary.total_count = 0
         /\ summary.success_count = 0
         /\ summary.success_rate.den # 0
         /\ RateTenths(summary.success_rate) = 0
    /\ LoadFailed =>
         /\ events = <<>>
         /\ raw_file = <<>>
         /\ transformed_file = <<>>
         /\ pc \in {"load", "done"}
         /\ pc = "done" => exit_status = 1

C8_Witness ==
    /\ pc = "done"
    /\ source = "lidia"
    /\ recipe_urls = <<>>
    /\ Len(events) > 2
    /\ events[1].res = "5xx"

CategoryRequests == {k \in 1..Len(events) : events[k].op = "request" /\ events[k].pos = 0}

\* the scenario of C9: the first category page, listing u1, u2, u2, u3, is
\* the only one that answers; u1 succeeds at once, u2 answers 404, u3 raises
\* on attempts 1 and 2 and succeeds on attempt 3
C9_Scenario ==
    /\ source = "lidia"
    /\ site[1] = <<Href(U1), Href(U2), Href(U2), Href(U3)>>
    /\ \A k \in CategoryRequests : events[k].res = (IF events[k].n = 1 THEN "ok" ELSE "exc")
    /\ \A k \in 1..Len(events) :
         IsItemRequest(events[k]) =>
           events[k].res = (IF events[k].what = U1 THEN "ok"
                            ELSE IF events[k].what = U2 THEN "404"
                            ELSE IF events[k].n < 3 THEN "exc" ELSE "ok")

Backoffs == Filter(events, [k \in 1..Len(events) |-> IsBackoff(events[k])])

\* C9: in a run of the scenario u2 is never requested a second time; at the
\* end of the run u2 is the one failure, the
\* backoff waits of the run are 2 and 4, both between the attempts of u3,
\* and the summary counts 2 successes and 1 failure over 3 URLs, shown as
\* 66.7%.
C9_EndToEnd ==
    /\ C9_Scenario =>
          Cardinality({k \in 1..Len(events) :
                         IsItemRequest(events[k]) /\ events[k].what = U2})
            <= 1
    /\ (pc = "done" /\ C9_Scenario) =>
      /\ failed_urls = <<U2>>
      /\ [k \in 1..Len(Backoffs) |-> Backoffs[k].n] = <<2, 4>>
      /\ \A k \in 1..Len(events) :
           IsBackoff(events[k]) => events[k - 1].what = U3 /\ events[k + 1].what = U3
      /\ summary.success_count = 2
      /\ summary.failed_count = 1
      /\ summary.total_count = 3
      /\ RateTenths(summary.success_rate) = 667

C9_Witness ==
    /\ pc = "done"
    /\ C9_Scenario
    /\ Len(events) > 0

\* C10: every raw record has its transformed record, in the same order,
\* whether or not it validated; a transformed record carries the
\* validation-issues field exactly when it failed validation, holding the
\* issues found; the transformed snapshot is that list, one record per raw
\* record.
C10_ValidationNeverDrops ==
    /\ Len(transformed_recipes) = (IF pc = "transform" THEN j - 1
                                   ELSE IF raw_file = <<>> THEN 0 ELSE Len(raw_recipes))
    /\ \A k \in 1..Len(transformed_recipes) :
         LET rec == transformed_recipes[k]
             v == validate_recipe(rec)
         IN  /\ rec.source = raw_recipes[k].url
             /\ rec.name = raw_recipes[k].title
             /\ rec.metadata.scraped_at = raw_recipes[k].scraped_at
             /\ (rec.validation_issues # None) <=> ~v.is_valid
             /\ ~v.is_valid => rec.validation_issues = v.issues
    /\ Len(validation_failures) =
         Cardinality({k \in 1..Len(transformed_recipes) :
                        transformed_recipes[k].validation_issues # None})
    /\ transformed_file # <<>> =>
         /\ transformed_file[1] = transformed_recipes
         /\ Len(transformed_file[1]) = Len(raw_file[1])
         /\ raw_file[1] = raw_recipes

C10_Witness ==
    /\ transformed_file # <<>>
    /\ Len(transformed_file[1]) = 2
    /\ transformed_file[1][1].validation_issues = None
    /\ transformed_file[1][2].validation_issues = <<"No ingredients", "Instructions too short">>

Returned == Len(out) = 1

\* the rule an issue belongs to: 1 name, 2 ingredients, 3 instructions,
\* 4 images, 5 source URL
RuleOf(issue) ==
    IF issue = "Missing name" THEN 1
    ELSE IF issue \in {"No ingredients", "Too few ingredients (1)",
                       "Too few ingredients (2)"} THEN 2
    ELSE IF issue \in {"No instructions", "Instructions too short",
                       "Instructions too short (< 50 chars)"} THEN 3
    ELSE IF issue = "No images" THEN 4
    ELSE IF issue = "Missing source URL" THEN 5
    ELSE 0

\* whether rule r fails on a recipe, for the validator named which
RuleFails(which, recipe, r) ==
    IF r = 1 THEN recipe.name \in {None, <<>>}
    ELSE IF r = 2 THEN Len(recipe.ingredients.json) < (IF which = "lidia" THEN 3 ELSE 1)
    ELSE IF r = 3 THEN recipe.instructions = None \/ Len(recipe.instructions) < 50
    ELSE IF r = 4 THEN which # "lidia" /\ Len(recipe.images.json) = 0
    ELSE recipe.source = ""

\* C11: validate_recipe returns one issue for each failing rule, in the
\* order name, ingredients, instructions, images, source URL, none for a
\* passing rule, and is_valid exactly when there is no issue.
C11_AllRulesEvaluated ==
    (fn = "validate_recipe" /\ Returned) =>
      LET v == out[1]
          rules == [k \in 1..Len(v.issues) |-> RuleOf(v.issues[k])]
      IN  /\ \A r \in 1..5 :
                Cardinality({k \in 1..Len(rules) : rules[k] = r})
                  = (IF RuleFails(arg.which, arg.recipe, r) THEN 1 ELSE 0)
          /\ \A k \in 1..Len(rules) : rules[k] \in 1..5
          /\ \A k \in 1..(Len(rules) - 1) : rules[k] < rules[k + 1]
          /\ v.is_valid <=> Len(v.issues) = 0

C11_Witness ==
    /\ fn = "validate_recipe" /\ Returned
    /\ arg.which = "test"
    /\ out[1].issues = <<"Missing name", "No ingredients", "Instructions too short",
                          "No images", "Missing source URL">>

\* the issues that say the instructions are too short
TooShortIssues == {"Instructions too short", "Instructions too short (< 50 chars)"}

\* C12 as stated: "No ingredients" is flagged whenever the ingredients list
\* is empty and "Instructions too short" whenever the instructions have 0 to
\* 49 characters, whatever the other fields hold.
C12_ShortFlaggedFromZero ==
    (fn = "validate_recipe" /\ Returned) =>
      LET issues == Range(out[1].issues)
          text == arg.recipe.instructions
      IN  /\ Len(arg.recipe.ingredients.json) = 0 => "No ingredients" \in issues
          /\ (text # None /\ Len(text) < 50) => issues \cap TooShortIssues # {}

\* C12, amended: "No ingredients" is flagged whenever the ingredients list is
\* empty, and "Instructions too short" whenever the instructions have 1 to 49
\* characters, whatever the other fields hold; instructions that are empty
\* or absent are flagged "No instructions" and not "Instructions too short".
C12_ShortFlaggedFromOne ==
    (fn = "validate_recipe" /\ Returned) =>
      LET issues == Range(out[1].issues)
          text == arg.recipe.instructions
      IN  /\ Len(arg.recipe.ingredients.json) = 0 => "No ingredients" \in issues
          /\ (text # None /\ Len(text) \in 1..49) => issues \cap TooShortIssues # {}
          /\ (text = None \/ Len(text) = 0) =>
                "No instructions" \in issues /\ issues \cap TooShortIssues = {}

C12_Witness ==
    /\ fn = "validate_recipe" /\ Returned
    /\ arg.which = "lidia"
    /\ Len(arg.recipe.instructions) = 49
    /\ arg.recipe.name = <<>>
    /\ out[1].issues = <<"Missing name", "No ingredients", "Instructions too short",
                         "Missing source URL">>

\* the value of each decimal digit
DigitTable ==
    [c \in {"0", "1", "2", "3", "4", "5", "6", "7", "8", "9"} |->
        IF c = "0" THEN 0 ELSE IF c = "1" THEN 1 ELSE IF c = "2" THEN 2
        ELSE IF c = "3" THEN 3 ELSE IF c = "4" THEN 4 ELSE IF c = "5" THEN 5
        ELSE IF c = "6" THEN 6 ELSE IF c = "7" THEN 7 ELSE IF c = "8" THEN 8 ELSE 9]

HasDigit(s) == \E k \in 1..Len(s) : s[k] \in DOMAIN DigitTable

\* the base-10 value of s[b..e]
RunValue(s, b, e) ==
    LET val[k \in (b - 1)..e] == IF k = b - 1 THEN 0 ELSE 10 * val[k - 1] + DigitTable[s[k]]
    IN  val[e]

\* C13: parse_servings returns nothing exactly when the text is absent,
\* empty or without a digit, and otherwise the base-10 value of the
\* leftmost maximal run of digits of the text; "Serves 6 to 8" gives 6.
C13_FirstDigitRun ==
    (fn = "parse_servings" /\ Returned) =>
      LET s == arg
          r == out[1]
      IN  /\ r = <<>> <=> (s = None \/ ~HasDigit(s))
          /\ r # <<>> =>
               \E b \in 1..Len(s) : \E e \in b..Len(s) :
                  /\ \A k \in 1..(b - 1) : s[k] \notin DOMAIN DigitTable
                  /\ \A k \in b..e : s[k] \in DOMAIN DigitTable
                  /\ e = Len(s) \/ s[e + 1] \notin DOMAIN DigitTable
                  /\ r = <<RunValue(s, b, e)>>
          /\ s = <<"S", "e", "r", "v", "e", "s", " ", "6", " ", "t", "o", " ", "8">>
               => r = <<6>>

C13_Witness ==
    /\ fn = "parse_servings" /\ Returned
    /\ arg = <<"6", " ", "8">>
    /\ out = <<(<<6>>)>>

\* the position of the first occurrence of x in xs
FirstAt(xs, x) == CHOOSE k \in 1..Len(xs) : xs[k] = x /\ \A h \in 1..(k - 1) : xs[h] # x

\* r holds each distinct element of xs once, ordered by first occurrence in xs
FirstSeenOrder(xs, r) ==
    /\ Range(r) = Range(xs)
    /\ \A p, q \in 1..Len(r) : p < q => FirstAt(xs, r[p]) < FirstAt(xs, r[q])

\* C14: each of the three deduplications returns every distinct URL of its
\* input exactly once, ordered by first occurrence; a, b, a, c gives a, b, c.
C14_DedupFirstSeen ==
    (fn = "dedup" /\ Returned) =>
      /\ FirstSeenOrder(arg, out[1].within_page)
      /\ FirstSeenOrder(arg, out[1].across_categories)
      /\ FirstSeenOrder(arg, out[1].across_pages)
      /\ arg = <<"a", "b", "a", "c">> =>
           /\ out[1].within_page = <<"a", "b", "c">>
           /\ out[1].across_categories = <<"a", "b", "c">>
           /\ out[1].across_pages = <<"a", "b", "c">>

C14_Witness ==
    /\ fn = "dedup" /\ Returned
    /\ arg = <<"a", "b", "a", "c">>
    /\ out[1].across_pages = <<"a", "b", "c">>

PageRequests == Filter(ex_events, [k \in 1..Len(ex_events) |-> ex_events[k].op = "request"])

\* C15: a first page that holds recipe links and no next-page link, or no
\* recipe link at all (with or without a next-page link), is the only page
\* requested: nothing follows its request, no wait and no request of page 2,
\* and extract_recipe_urls returns the links found on it, none in the
\* second case.
C15_StopsAfterPageOne ==
    (ex_events # <<>> /\ ex_events[1].res \in {"links_last", "empty"}) =>
      /\ Len(ex_events) = 1
      /\ page_num = 1
      /\ ex_pc \in {"return", "main", "done"}
      /\ ex_events[1].res = "empty" => ex_events[1].found = <<>>
      /\ ex_ret # <<>> => ex_ret[1] = ex_events[1].found

C15_Witness ==
    /\ ex_pc = "done"
    /\ Len(ex_events) = 1
    /\ ex_events[1].res = "empty"
    /\ ex_events[1].next_page
    /\ ex_ret[1] = <<>>

\* strictly smaller after every step of the extractor, never negative
ExMeasure ==
    4 * (MAX_PAGES + 1 - page_num)
    + (IF ex_pc = "start" THEN 4 ELSE IF ex_pc = "loop" THEN 3
       ELSE IF ex_pc = "return" THEN 2 ELSE IF ex_pc = "main" THEN 1 ELSE 0)

\* the extractor can take a step
ExCanStep ==
    \/ ex_pc = "start"
    \/ ex_pc = "loop"
    \/ ex_pc = "return"
    \/ ex_pc = "main" /\ Len(ex_ret) = 1

\* C16, the pages requested: the k-th request is the request of page k, there
\* are at most 10 requests, and every request but the last one succeeded,
\* found a recipe link and a next-page link, on a page below 10.
C16_PagesInOrder ==
    /\ Len(PageRequests) <= 10
    /\ \A k \in 1..Len(PageRequests) : PageRequests[k].page = k
    /\ \A k \in 1..(Len(PageRequests) - 1) :
         /\ PageRequests[k].res = "links_next"
         /\ PageRequests[k].found # <<>>
         /\ PageRequests[k].next_page
         /\ k < 10
    /\ page_num \in 1..11
    /\ ExMeasure >= 0
    /\ ex_pc # "done" => ExCanStep
    /\ ex_pc = "done" => ex_exit \in {0, 1}

\* C16: extract_recipe_urls always terminates (every step of the extractor
\* lowers a measure that is never negative, and it can step until main has
\* returned) and requests the pages 1, 2, ... in order, at most 10 of them,
\* each page after the first only when the page before it succeeded with a
\* recipe link and a next-page link.
C16_BoundedWalk == [](C16_PagesInOrder) /\ [][ExMeasure' < ExMeasure]_vars

C16_Witness ==
    /\ ex_pc = "done"
    /\ Len(PageRequests) = 10
    /\ PageRequests[10].res = "links_next"

IsCategoryRequest(e) == e.op = "request" /\ e.what = "category"

\* C17 as stated: a category page request that fails transiently, on an
\* attempt below the cap of 3, is followed by a backoff wait and then by
\* another request of the same category page.
C17_ListingFetchRetried ==
    \A k \in 1..Len(events) :
       (IsCategoryRequest(events[k]) /\ events[k].res = "exc") =>
         /\ k < Len(events)
         /\ IsBackoff(events[k + 1])
         /\ (k + 1 < Len(events)) =>
               IsCategoryRequest(events[k + 2]) /\ events[k + 2].n = events[k].n

RateLimitWaits ==
    {k \in 1..Len(events) : events[k].op = "sleep" /\ events[k].what = "rate_limit"}

\* the items the loop has filed, as succeeded or failed
FiledCount == Len(raw_recipes) + Len(failed_urls)

\* C18 as stated: a completed run has made one rate-limit wait for every
\* category page request and one for every item, the last item included.
C18_WaitAfterEveryItem ==
    (pc = "done" /\ ~LoadFailed) =>
      Cardinality(RateLimitWaits) = Cardinality(CategoryRequests) + Len(recipe_urls)

\* C18, amended: no wait precedes the first request of a run; every
\* rate-limit wait lasts 2 and comes right after a category page request or
\* after the last attempt of an item that is not the last item; there is one
\* such wait for every category page request and for every filed item but
\* the last of the list, whether it succeeded or failed; after the last
\* item's request there is no wait.
C18_WaitAfterAllButLastItem ==
    /\ \A k \in 1..Len(events) :
         events[k].op = "sleep" => \E h \in 1..(k - 1) : events[h].op = "request"
    /\ \A k \in RateLimitWaits :
         /\ events[k].n = 2
         /\ k > 1 /\ events[k - 1].op = "request"
         /\ IsItemRequest(events[k - 1]) => events[k - 1].pos < Len(recipe_urls)
    /\ \A k \in CategoryRequests : k + 1 \in RateLimitWaits
    /\ Cardinality(RateLimitWaits) =
         Cardinality(CategoryRequests)
         + (IF FiledCount = 0 THEN 0
            ELSE IF FiledCount < Len(recipe_urls) THEN FiledCount
            ELSE FiledCount - 1)
    /\ \A k \in 1..Len(events) :
         (IsItemRequest(events[k]) /\ events[k].pos = Len(recipe_urls)) =>
           \A h \in (k + 1)..Len(events) : h \notin RateLimitWaits

C18_Witness ==
    /\ pc = "done"
    /\ source = "lidia"
    /\ Len(recipe_urls) = 3
    /\ Len(failed_urls) = 2
    /\ Cardinality(CategoryRequests) = 2
    /\ Cardinality(RateLimitWaits) = 4

\* C19 as stated: no URL is fetched as more than one item of the list, and
\* the raw snapshot holds no two records with the same source URL.
C19_UrlIsUniqueKey ==
    /\ \A k, h \in 1..Len(events) :
         (IsItemRequest(events[k]) /\ IsItemRequest(events[h])
            /\ events[k].what = events[h].what) => events[k].pos = events[h].pos
    /\ raw_file # <<>> =>
         \A a, b \in 1..Len(raw_file[1]) :
            raw_file[1][a].url = raw_file[1][b].url => a = b

\* the transformed records that passed validation
ValidRecords ==
    {k \in 1..Len(transformed_recipes) : transformed_recipes[k].validation_issues = None}

\* C20 as stated: the rate compared with the threshold counts a record that
\* failed validation against the run, so a run ends with status 0 only if
\* the records that passed validation are at least 80% (lidia) or 90%
\* (serious eats) of the item URLs.
C20_VerdictCountsValidation ==
    (pc = "done" /\ exit_status = 0) =>
      100 * Cardinality(ValidRecords)
        >= (IF source = "lidia" THEN 80 ELSE 90) * Len(recipe_urls)


\* the fields of a record other than the identifier and the clock readings
Stable(rec) ==
    [f \in DOMAIN rec \ {"id", "created_at", "updated_at", "discovery_date"} |-> rec[f]]

Transformed == fn = "transform_to_schema" /\ out # <<>>

C22_TagsUnionInOrder ==
    Transformed =>
        LET tags == JsonLoads(out[1].first.tags)
        IN  IF arg.which = "lidia" THEN tags = <<"Italian", "Lidia Bastianich">>
            ELSE LET c == arg.raw.category
                     m == arg.raw.metadata.category
                     given(x) == x # None /\ x # <<>>
                 IN  /\ \A a, b \in 1..Len(tags) : a # b => tags[a] # tags[b]
                     /\ Range(tags) = {x \in {c, m} : given(x)}
                     /\ (given(c) /\ given(m) /\ c # m) => tags = <<c, m>>

C22_Witness ==
    /\ Transformed
    /\ arg.which = "serious_eats"
    /\ arg.raw.category = <<"m">>
    /\ arg.raw.metadata.category = <<"w">>
    /\ JsonLoads(out[1].first.tags) = << <<"m">>, <<"w">> >>


\* the requests of the item loop that fetched a page without a title
Untitled == {k \in 1..Len(events) : IsItemRequest(events[k]) /\ events[k].res = "notitle"}

\* C23: in a Lidia run a page fetched without a level-1 heading ends its item
\* at that attempt: no backoff wait and no further request of the item
\* follow, scrape_recipe returns None, the URL is filed as failed and not as
\* scraped, and the loop goes on to the next item.
C23_NoTitleIsPermanent ==
    source = "lidia" =>
      \A k \in Untitled :
        LET p == events[k].pos
        IN  /\ \A m \in (k + 1)..Len(events) :
                 ~(IsItemRequest(events[m]) /\ events[m].pos = p)
            /\ k < Len(events) => ~IsBackoff(events[k + 1])
            /\ (pc = "item_done" /\ i = p) => ret = <<>>
            /\ (i > p \/ ~InLoop) =>
                 /\ events[k].what \in Range(failed_urls)
                 /\ \A r \in 1..Len(raw_recipes) : raw_recipes[r].url # events[k].what
            /\ (~InLoop /\ p < Len(recipe_urls)) => RequestsOf(p + 1) # {}

C23_Witness ==
    /\ source = "lidia"
    /\ pc = "done"
    /\ \E k \in Untitled :
         /\ events[k].n = 1
         /\ events[k].pos < Len(recipe_urls)
         /\ events[k].what \in Range(failed_urls)
         /\ RequestsOf(events[k].pos + 1) # {}


\* a paragraph holding none of the boilerplate markers
MarkerFree(text) == ~\E k \in 1..Len(SkipPatterns) : Contains(Lower(text), SkipPatterns[k])

\* C24 as stated: the instruction text is the marker-free paragraphs of
\* length 20 or more, a paragraph of exactly 20 characters included, in
\* their original order and joined by a blank line.
C24_KeepsFromTwenty ==
    (fn = "instructions" /\ out # <<>>) =>
      out[1] = Join(<<"\n", "\n">>,
                    Filter(arg, [k \in 1..Len(arg) |->
                                   MarkerFree(arg[k]) /\ Len(arg[k]) >= 20]))


\* the positions in the history of the writes of one snapshot
WritesOf(what) == {k \in 1..Len(events) : events[k].op = "write" /\ events[k].what = what}

\* the stages a run has behind it, read off the history and the files
C25_Stages ==
    ~LoadFailed =>
      /\ Cardinality(WritesOf("raw")) = (IF raw_file = <<>> THEN 0 ELSE 1)
      /\ Cardinality(WritesOf("transformed")) = (IF transformed_file = <<>> THEN 0 ELSE 1)
      \* the raw write comes after the last item fetch ...
      /\ \A k \in WritesOf("raw") : \A m \in k..Len(events) : events[m].op # "request"
      /\ raw_file # <<>> => /\ FiledCount = Len(recipe_urls)
                            /\ raw_file = <<raw_recipes>>
      \* ... and before any normalize/validate call
      /\ raw_file = <<>> => transformed_recipes = <<>> /\ next_id = 1
      \* the canonical write comes after every raw record was normalized
      /\ \A k \in WritesOf("transformed") :
            /\ \E m \in WritesOf("raw") : m < k
            /\ events[k].n = Len(raw_recipes)
      /\ transformed_file # <<>> =>
            /\ transformed_file = <<transformed_recipes>>
            /\ Len(transformed_recipes) = Len(raw_recipes)
            /\ next_id = Len(raw_recipes) + 1
      \* the verdict comes after both writes
      /\ exit_status # -1 => raw_file # <<>> /\ transformed_file # <<>>
      /\ pc = "done" => exit_status # -1

\* C25: the raw snapshot is written once, after the last item fetch and
\* before any transform call; the transformed snapshot is written once,
\* after every raw record has been transformed and validated; the exit
\* verdict is set after both writes; and no step after the raw write changes
\* the raw snapshot.
C25_StageOrder ==
    /\ []C25_Stages
    /\ [][raw_file # <<>> => raw_file' = raw_file]_vars

C25_Witness ==
    /\ pc = "done"
    /\ exit_status = 1
    /\ Len(raw_recipes) >= 1
    /\ Len(failed_urls) >= 1
    /\ raw_file = <<raw_recipes>>
    /\ transformed_file = <<transformed_recipes>>


\* the number of category page requests made so far
PagesFetched == Cardinality(CategoryRequests)

\* the distinct URLs discovered so far
Discovered == Range(all_recipe_urls)

\* what a Lidia run attempts, once the list of items is fixed
C26_Capped ==
    /\ Len(all_recipe_urls) <= 10 * PagesFetched
    /\ Len(recipe_urls) <= 30
    /\ ~BeforeLoop =>
         \* the first min(30, distinct) distinct URLs, in discovery order
         /\ Len(recipe_urls) = (IF Cardinality(Discovered) < 30
                                THEN Cardinality(Discovered) ELSE 30)
         /\ Range(recipe_urls) \subseteq Discovered
         /\ \A a, b \in 1..Len(recipe_urls) :
               a < b => FirstAt(all_recipe_urls, recipe_urls[a])
                          < FirstAt(all_recipe_urls, recipe_urls[b])
         /\ \A u \in Discovered \ Range(recipe_urls) :
               \A a \in 1..Len(recipe_urls) :
                  FirstAt(all_recipe_urls, recipe_urls[a]) < FirstAt(all_recipe_urls, u)
         \* and nothing else is requested
         /\ \A k \in 1..Len(events) :
               IsItemRequest(events[k]) => events[k].what = recipe_urls[events[k].pos]
    /\ pc = "done" => Len(FirstAttempts) = Len(recipe_urls)

\* C26: a Lidia run attempts at most 30 item URLs, every category page adds
\* at most 10 URLs, and the cap is applied after deduplication: the list
\* attempted is the first min(30, number of distinct discovered URLs)
\* distinct URLs in discovery order.
C26_CapAfterDedup ==
    /\ []C26_Capped
    /\ [][Len(all_recipe_urls') <= Len(all_recipe_urls) + 10]_vars

C26_Witness ==
    /\ pc = "done"
    /\ Len(all_recipe_urls) = 39
    /\ Cardinality(Discovered) = 30
    /\ Len(recipe_urls) = 30
    /\ Len(site[4]) = 12

\* C30 as stated: discovery does not stop while fewer than 30 distinct URLs
\* are collected and category pages remain unfetched.
C30_StopsOnDistinctCount ==
    (source = "lidia" /\ pc # "discover") =>
       Cardinality(Discovered) >= 30 \/ PagesFetched = Len(site)


PageWaits == Filter(ex_events, [k \in 1..Len(ex_events) |-> ex_events[k].op = "sleep"])

\* C27 as stated: once the walk is over, the rate-limit waits number one less
\* than the pages requested, and no wait follows the last page requested,
\* also when the walk ended at max_pages.
C27_WaitsBetweenPages ==
    (ex_pc \in {"main", "done"} /\ PageRequests # <<>>) =>
      /\ Len(PageWaits) = Len(PageRequests) - 1
      /\ ex_events[Len(ex_events)].op = "request"

\* the page requests that failed: an exception or a status other than 2xx
FailedPages ==
    {k \in 1..Len(ex_events) :
        ex_events[k].op = "request" /\ ex_events[k].res \in {"exc", "5xx"}}

\* the links found on the pages requested before history position k
FoundBefore(k) ==
    LET earlier == Filter(ex_events, [h \in 1..Len(ex_events) |->
                                        h < k /\ ex_events[h].op = "request"])
    IN  Join(<<>>, [h \in 1..Len(earlier) |-> earlier[h].found])

\* C29: a failed page request is the last thing the walk does: no page is
\* requested after it, extract_recipe_urls returns the links of the pages
\* before it, each once and in first-seen order, and when page 1 fails it
\* returns the empty list, main exits with status 1 and writes no file.
C29_FailureStopsWalk ==
    \A k \in FailedPages :
       /\ k = Len(ex_events)
       /\ ex_events[k].found = <<>>
       /\ page_num = ex_events[k].page
       /\ ex_pc \in {"return", "main", "done"}
       /\ ex_ret # <<>> =>
            /\ FirstSeenOrder(FoundBefore(k), ex_ret[1])
            /\ \A a, b \in 1..Len(ex_ret[1]) : a # b => ex_ret[1][a] # ex_ret[1][b]
       /\ (ex_events[k].page = 1 /\ ex_ret # <<>>) => ex_ret[1] = <<>>
       /\ (ex_events[k].page = 1 /\ ex_pc = "done") => ex_exit = 1 /\ output_file = <<>>

C29_Witness ==
    /\ ex_pc = "done"
    /\ \E k \in FailedPages : ex_events[k].page = 3 /\ ex_events[k].res = "5xx"
    /\ Len(ex_ret[1]) >= 2
    /\ ex_exit = 0


\* the positions in the history of the outbound requests
Requests == {k \in 1..Len(events) : events[k].op = "request"}

\* C28: in a run of either pipeline, between any two requests that follow
\* one another (category pages, items, retries, whatever their outcomes)
\* there is a wait of at least 2: a rate-limit wait or a backoff wait.
C28_WaitBetweenRequests ==
    \A a, b \in Requests :
       (a < b /\ \A h \in (a + 1)..(b - 1) : events[h].op # "request") =>
          \E h \in (a + 1)..(b - 1) : events[h].op = "sleep" /\ events[h].n >= 2

C28_Witness ==
    /\ source = "lidia"
    /\ pc = "done"
    /\ Len(recipe_urls) = 3
    /\ \E a, b, c \in Requests :
          /\ events[a].pos = 0 /\ events[a].res = "5xx"
          /\ events[b].pos = 1 /\ events[b].res = "exc"
          /\ events[c].pos = 2 /\ events[c].res = "404"

====
